---- MODULE Spec2Model ----
(***************************************************************************)
(* Email ETL + dual-store synchronisation of voice-email-agent.            *)
(*                                                                         *)
(* The Record Store is one SQLite connection (aiosqlite): statements act   *)
(* on the connection's working view (emails, etl_jobs) and become durable  *)
(* (durable_emails, durable_jobs) at commit.  The Search Index is one      *)
(* Chroma collection.  run_etl is modelled step by step, one action per    *)
(* awaited call, with failures of the provider, of the connection and of   *)
(* the index injected nondeterministically.                                *)
(***************************************************************************)
EXTENDS Integers, Sequences, FiniteSets, TLC

\* ------------------------------------------------------------ bounds
MaxRuns == 2        \* run_etl invocations in one behaviour
MaxFaults == 3      \* injected failures in one behaviour
MaxCalls == 1       \* direct complete_job calls in one behaviour
MaxBatchCalls == 2  \* direct save_batch calls in one behaviour
MaxCount == 3       \* largest max_emails argument of fetch_emails
MaxPageSize == 2    \* largest emails_per_page argument of fetch_emails
MaxRequests == 3    \* page requests of one fetch_emails call
MaxLimit == 2       \* largest limit argument of a query tool

\* ------------------------------------------------------------ constants
MAX_EMAILS == 10    \* NylasEmailFetcher.MAX_EMAILS
EMAILS_PER_PAGE == 5  \* NylasEmailFetcher.EMAILS_PER_PAGE

EmailIds == {"e1", "e2"}
\* Shapes of a raw provider record that _transform_emails tells apart.
RawKinds == {"valid", "missing_from", "ill_shaped_from", "missing_id",
             "bad_address", "non_mapping"}
Procs == {1, 2}     \* run_etl invocations that may be in progress together
Sequential == {1}   \* the invocation that runs when runs follow one another
JobIds == 1..(MaxRuns + 1)

NULL == "null"
PENDING == "pending"
RUNNING == "running"
COMPLETED == "completed"
FAILED == "failed"
ETLJobStatus == {PENDING, RUNNING, COMPLETED, FAILED}
Terminal == {COMPLETED, FAILED}

\* Exceptions, named by the call that raises them.
IndexErrors == {"index_not_initialized", "index_add"}
NoToolResult == [status |-> "none", emails |-> <<>>, failed |-> FALSE]
NoSend == [message |-> NULL, outcome |-> NULL]
NoHandler == [name |-> "none", input |-> NoSend, callbacks |-> <<>>, raised |-> FALSE]
\* an attribute no statement has assigned: reading it raises AttributeError
ABSENT == "absent"
NoManager == [email_mode |-> NULL, test_transport |-> ABSENT, production_transport |-> ABSENT,
              got |-> "none"]
NoArg == [given |-> FALSE, value |-> 0]
NoFetchResult == [status |-> "none", emails |-> <<>>, requests_made |-> 0]
PageOvershoot == 1  \* records a page may hold beyond the limit asked for
NoResult == [status |-> "none", emails_processed |-> 0, job_id |-> 0, raised |-> NULL]

VARIABLES
    source,           \* the provider's (stable) list of raw records
    vector_store,     \* EmailETLService.vector_store: "none" or "set"
    initialized,      \* EmailSearchStore.initialized
    collection,       \* the Chroma collection: set of entries
    emails,           \* emails table, working view of the connection
    etl_jobs,         \* etl_jobs table, working view of the connection
    in_tx,            \* the connection has an open transaction
    durable_emails,   \* emails table as committed
    durable_jobs,     \* etl_jobs table as committed
    now,              \* the clock read by datetime.now
    faults,           \* failures injected so far
    runs,             \* run_etl invocations started so far
    pc,               \* position of each invocation in run_etl
    job_id,           \* run_etl local
    raw_emails,       \* run_etl local
    email_models,     \* run_etl local
    idx,              \* loop position in _load_emails / _load_emails_to_vector_store
    new_emails,       \* _load_emails_to_vector_store local
    exc,              \* first exception raised inside run_etl's try block
    result,           \* what run_etl returned or raised
    index_failed,     \* _load_emails_to_vector_store caught an exception
    terminal_writes,  \* history: committed terminal writes per job
    prev,             \* history: summary of the invocation's previous run
    first_success,    \* history: stores at the end of the first successful run
    successes,        \* history: number of successful runs
    calls,            \* direct repository calls made so far
    last_batch,       \* history: the latest save_batch call, its input and outcome
    failed_rows,      \* history: rows left behind by save_batch calls that failed part-way
    fetch_pc,         \* position of the fetch_emails call
    fetch_args,       \* fetch_emails arguments max_emails, emails_per_page
    max_emails,       \* fetch_emails local
    emails_per_page,  \* fetch_emails local
    all_emails,       \* fetch_emails local
    page_token,       \* fetch_emails local
    requests,         \* history: page requests sent to the provider
    responses,        \* history: the provider's responses
    provided,         \* history: concatenation of the pages the provider returned
    transport_failed, \* history: a page request failed at transport level
    fetch_result,     \* what fetch_emails returned or raised
    tool_call,        \* the latest query tool call: tool and arguments
    index_queries,    \* history: Search Index queries of that call, with their hits
    tool_result,      \* what the tool returned or raised
    handler,          \* history: the latest tool handler invocation and what it gave
                      \* to params.result_callback
    manager,          \* the SimpleTransportManager's attributes, and what its latest
                      \* get_transport call gave
    client,           \* EmailSearchStore.client: 0 for None, else the handle's number
    collection_handle, \* EmailSearchStore.collection: 0 for None, else the handle's number
    handles,          \* Chroma handles created so far
    connection,       \* Database.connection: "none", "open" or "closed"
    documents,        \* document texts of the collection, with the fields they came from
    store_call,       \* history: the latest direct call on a session object
    issued,           \* history: ids for which a run issued collection.add, and
                      \* whether the collection already held the id
    crashes,          \* process crashes so far
    at_start          \* history: the stores' email contents when the run began

dbvars == <<emails, etl_jobs, in_tx, durable_emails, durable_jobs, terminal_writes>>
vsvars == <<vector_store, initialized, collection>>
histvars == <<prev, first_success, successes, calls>>
repovars == <<last_batch, failed_rows>>
fetchvars == <<fetch_pc, fetch_args, max_emails, emails_per_page, all_emails, page_token,
               requests, responses, provided, transport_failed, fetch_result>>
toolvars == <<tool_call, index_queries, tool_result, handler, manager>>
handlevars == <<client, collection_handle, handles>>
callvars == <<connection, documents, store_call>>
sessvars == <<handlevars, callvars>>
racevars == <<issued, crashes, at_start>>
apivars == <<repovars, fetchvars, toolvars, sessvars, racevars>>
locals == <<job_id, raw_emails, email_models, idx, new_emails, exc, result, index_failed>>
vars == <<source, vector_store, initialized, collection, emails, etl_jobs, in_tx,
          durable_emails, durable_jobs, now, faults, runs, pc, job_id, raw_emails,
          email_models, idx, new_emails, exc, result, index_failed,
          terminal_writes, prev, first_success, successes, calls,
          last_batch, failed_rows, fetch_pc, fetch_args, max_emails, emails_per_page,
          all_emails, page_token, requests, responses, provided, transport_failed,
          fetch_result, tool_call, index_queries, tool_result, handler, manager, client,
          collection_handle,
          handles, connection, documents, store_call, issued, crashes, at_start>>

\* ------------------------------------------------------------ helpers
Min(a, b) == IF a < b THEN a ELSE b
Range(s) == {s[i] : i \in 1..Len(s)}
Ids(rows) == {r.id : r \in rows}
SeqIds(s) == {s[i].id : i \in 1..Len(s)}

RawRecords == [id : EmailIds, kind : RawKinds]
\* Provider results: raw records with provider-unique ids.
Sources ==
    {<<>>} \cup {<<r>> : r \in RawRecords}
    \cup {s \in RawRecords \X RawRecords : s[1].id # s[2].id}

\* NylasEmailFetcher.fetch_emails, as run_etl sees it: the provider's records,
\* at most MAX_EMAILS of them.
FetchEmails(src) == SubSeq(src, 1, Min(Len(src), MAX_EMAILS))

\* The sender the provider reports for each message; the second message shows
\* the first one's address as its display name.
SenderEmail(id) == IF id = "e1" THEN "ann@x.com" ELSE "ann@y.org"
SenderName(id) == IF id = "e2" THEN "ann@x.com" ELSE "Ann"
\* The date the provider reports for each message.
SentDate(id) == CASE id = "e1" -> 3 [] id = "e2" -> 2 [] OTHER -> 1

\* EmailETLService._transform_emails, per record:
\*   no mapping       raw_email.get raises AttributeError inside the try, and
\*                    raw_email.get('id', 'unknown') raises it again inside the
\*                    except clause, so the method raises;
\*   from missing     from_info is {} and the sender fields default to "";
\*   from ill-shaped  from_info[0] or from_info.get raises, record dropped;
\*   id missing       EmailModel(id=None) fails validation, record dropped;
\*   bad address      validate_email raises ValueError, record dropped.
TransformRaises(raw) == \E i \in 1..Len(raw) : raw[i].kind = "non_mapping"
IsValidRawStrict(r) == r.kind = "valid"
IsValidRaw(r) == r.kind \in {"valid", "missing_from"}
FromEmail(r) == IF r.kind = "missing_from" THEN "" ELSE SenderEmail(r.id)
FromName(r) == IF r.kind = "missing_from" THEN "" ELSE SenderName(r.id)
EmailModel(r, t) ==
    [id |-> r.id, from_email |-> FromEmail(r), from_name |-> FromName(r),
     date |-> SentDate(r.id), processed_at |-> t]
Transform(raw, t) ==
    LET kept == SelectSeq(raw, IsValidRaw)
    IN  [i \in 1..Len(kept) |-> EmailModel(kept[i], t)]

\* EmailRepository.save: INSERT OR REPLACE INTO emails
SaveRowPlainInsert(rows, e) == rows \cup {e}
SaveRowDropped(rows, e) == rows
SaveRow(rows, e) == {r \in rows : r.id # e.id} \cup {e}

\* EmailRepository.save_batch statement: INSERT OR IGNORE INTO emails
InsertOrTouch(rows, e) ==
    IF e.id \in Ids(rows)
    THEN {IF r.id = e.id THEN [r EXCEPT !.processed_at = @ + 1] ELSE r : r \in rows}
    ELSE rows \cup {e}
InsertOrIgnore(rows, e) == IF e.id \in Ids(rows) THEN rows ELSE rows \cup {e}

\* collection.add of an id already in the collection: depending on the Chroma
\* release the entry is ignored or the whole call raises a duplicate-id error
HasExistingId(coll, batch) == \E i \in 1..Len(batch) : batch[i].id \in Ids(coll)
CollectionAdd(coll, batch) ==
    coll \cup {batch[i] : i \in {k \in 1..Len(batch) : batch[k].id \notin Ids(coll)}}

\* ETLJobRepository.start_job statement: INSERT INTO etl_jobs, with the status
\* _start_etl_job gives the job
NewJobRowPending == [status |-> PENDING, records_processed |-> 0,
                     error_message |-> NULL, completed_at |-> NULL]
NewJobRow == [status |-> RUNNING, records_processed |-> 0,
              error_message |-> NULL, completed_at |-> NULL]
\* ETLJobRepository.complete_job statement: UPDATE etl_jobs ... WHERE id = ?
UpdateNoJob(jobs, j, st, n, msg) == jobs
UpdateJobNoTimestamp(jobs, j, st, n, msg) ==
    IF j \in 1..Len(jobs)
    THEN [jobs EXCEPT ![j] = [status |-> st, records_processed |-> n,
                              error_message |-> msg, completed_at |-> NULL]]
    ELSE jobs
UpdateJob(jobs, j, st, n, msg) ==
    IF j \in 1..Len(jobs)
    THEN [jobs EXCEPT ![j] = [status |-> st, records_processed |-> n,
                              error_message |-> msg, completed_at |-> "set"]]
    ELSE jobs

\* ------------------------------------------------------------ the connection
IsTerminalWrite(jobs, j) ==
    /\ j \in 1..Len(jobs)
    /\ jobs[j].status \in Terminal
    /\ (j > Len(durable_jobs) \/ durable_jobs[j] # jobs[j])

\* connection.commit() succeeding: the working view becomes durable
Commit ==
    /\ durable_emails' = emails
    /\ durable_jobs' = etl_jobs
    /\ in_tx' = FALSE
    /\ terminal_writes' = [j \in JobIds |->
            IF IsTerminalWrite(etl_jobs, j) THEN terminal_writes[j] + 1 ELSE terminal_writes[j]]
    /\ UNCHANGED <<emails, etl_jobs>>

\* connection.commit() raising: SQLite either leaves the transaction open
\* (SQLITE_BUSY) or rolls it back (I/O error, disk full)
CommitFails ==
    /\ in_tx
    /\ faults < MaxFaults
    /\ faults' = faults + 1
    /\ \/ UNCHANGED dbvars
       \/ /\ emails' = durable_emails
          /\ etl_jobs' = durable_jobs
          /\ in_tx' = FALSE
          /\ UNCHANGED <<durable_emails, durable_jobs, terminal_writes>>

\* connection.execute() raising: the statement has no effect
ExecuteFails ==
    /\ faults < MaxFaults
    /\ faults' = faults + 1
    /\ UNCHANGED dbvars

\* ------------------------------------------------------------ run_etl
\* an exception inside the try block: control moves to the except clause
Raise(p, e) ==
    /\ exc' = [exc EXCEPT ![p] = e]
    /\ pc' = [pc EXCEPT ![p] = "fail_execute"]

\* run_etl ends by raising e
Propagate(p, e) ==
    /\ result' = [result EXCEPT ![p] = [NoResult EXCEPT !.status = "raised", !.raised = e]]
    /\ pc' = [pc EXCEPT ![p] = "done"]

Summary(p) ==
    [completed |-> result[p].status = "success",
     index_failed |-> index_failed[p],
     ids |-> SeqIds(email_models[p])]

\* run_etl entry and ETLJobRepository.start_job: the INSERT
StartJobExecute(p) ==
    /\ pc[p] \in {"idle", "done"}
    /\ runs < MaxRuns
    /\ runs' = runs + 1
    /\ at_start' = [at_start EXCEPT ![p] = [emails |-> emails, durable_emails |-> durable_emails,
                                            collection |-> collection]]
    /\ prev' = [prev EXCEPT ![p] = IF pc[p] = "done" THEN Summary(p) ELSE prev[p]]
    /\ raw_emails' = [raw_emails EXCEPT ![p] = <<>>]
    /\ email_models' = [email_models EXCEPT ![p] = <<>>]
    /\ idx' = [idx EXCEPT ![p] = 0]
    /\ new_emails' = [new_emails EXCEPT ![p] = <<>>]
    /\ exc' = [exc EXCEPT ![p] = NULL]
    /\ index_failed' = [index_failed EXCEPT ![p] = FALSE]
    /\ \/ /\ etl_jobs' = Append(etl_jobs, NewJobRow)
          /\ in_tx' = TRUE
          /\ job_id' = [job_id EXCEPT ![p] = Len(etl_jobs) + 1]
          /\ result' = [result EXCEPT ![p] = NoResult]
          /\ pc' = [pc EXCEPT ![p] = "start_commit"]
          /\ UNCHANGED <<emails, durable_emails, durable_jobs, terminal_writes, faults>>
       \/ /\ ExecuteFails
          /\ job_id' = [job_id EXCEPT ![p] = 0]
          /\ Propagate(p, "db_start")
    /\ UNCHANGED <<source, repovars, fetchvars, toolvars, sessvars, issued, crashes, vsvars, now, first_success, successes, calls>>

\* ETLJobRepository.start_job: the commit; run_etl enters its try block
StartJobCommit(p) ==
    /\ pc[p] = "start_commit"
    /\ \/ /\ Commit
          /\ pc' = [pc EXCEPT ![p] = "init_store"]
          /\ UNCHANGED <<faults, result, job_id>>
       \/ /\ CommitFails
          /\ job_id' = [job_id EXCEPT ![p] = 0]
          /\ Propagate(p, "db_start")
    /\ UNCHANGED <<source, apivars, vsvars, now, runs, raw_emails, email_models, idx,
                   new_emails, exc, index_failed, histvars>>

\* EmailSearchStore.init_store: "if self.initialized: return"
InitStoreNeverEarly == FALSE
InitStoreReturnsEarly == initialized

\* EmailSearchStore.init_store past the early return: PersistentClient(...),
\* get_or_create_collection(...), initialized = True; either call may raise
InitStoreOutcomes == {"ok", "client_failed", "collection_failed"}
InitStoreBody(outcome) ==
    /\ client' = IF outcome = "client_failed" THEN client ELSE handles + 1
    /\ collection_handle' = IF outcome = "ok" THEN handles + 2 ELSE collection_handle
    /\ handles' = CASE outcome = "ok" -> handles + 2
                     [] outcome = "collection_failed" -> handles + 1
                     [] OTHER -> handles
    /\ initialized' = IF outcome = "ok" THEN TRUE ELSE initialized

\* run_etl: "if self.vector_store is None": a new EmailSearchStore, then its
\* init_store
InitStore(p) ==
    /\ pc[p] = "init_store"
    /\ \/ /\ vector_store = "set"
          /\ pc' = [pc EXCEPT ![p] = "fetch"]
          /\ UNCHANGED <<vsvars, handlevars, faults, exc>>
       \/ /\ vector_store = "none"
          /\ vector_store' = "set"
          /\ \/ /\ InitStoreBody("ok")
                /\ pc' = [pc EXCEPT ![p] = "fetch"]
                /\ UNCHANGED <<faults, exc>>
             \/ /\ faults < MaxFaults
                /\ faults' = faults + 1
                /\ \E outcome \in InitStoreOutcomes \ {"ok"} : InitStoreBody(outcome)
                /\ Raise(p, "vs_init")
          /\ UNCHANGED collection
    /\ UNCHANGED <<source, repovars, fetchvars, toolvars, callvars, racevars, dbvars, now, runs, job_id,
                   raw_emails, email_models, idx, new_emails, result, index_failed, histvars>>

\* run_etl: Extract
Fetch(p) ==
    /\ pc[p] = "fetch"
    /\ \/ /\ raw_emails' = [raw_emails EXCEPT ![p] = FetchEmails(source)]
          /\ pc' = [pc EXCEPT ![p] = "transform"]
          /\ UNCHANGED <<faults, exc>>
       \/ /\ faults < MaxFaults
          /\ faults' = faults + 1
          /\ Raise(p, "fetch")
          /\ UNCHANGED raw_emails
    /\ UNCHANGED <<source, apivars, vsvars, dbvars, now, runs, job_id, email_models, idx,
                   new_emails, result, index_failed, histvars>>

\* run_etl: Transform; both loads are skipped loops when nothing was transformed
TransformEmails(p) ==
    /\ pc[p] = "transform"
    /\ now' = now + 1
    /\ IF TransformRaises(raw_emails[p])
       THEN /\ Raise(p, "transform")
            /\ UNCHANGED <<email_models, idx>>
       ELSE /\ email_models' = [email_models EXCEPT ![p] = Transform(raw_emails[p], now')]
            /\ idx' = [idx EXCEPT ![p] = 1]
            /\ pc' = [pc EXCEPT ![p] =
                    IF email_models'[p] = <<>> THEN "complete_execute" ELSE "save_execute"]
            /\ UNCHANGED exc
    /\ UNCHANGED <<source, apivars, vsvars, dbvars, faults, runs, job_id, raw_emails,
                   new_emails, result, index_failed, histvars>>

\* _load_emails -> Database.save_email -> EmailRepository.save: the INSERT OR REPLACE
SaveExecute(p) ==
    /\ pc[p] = "save_execute"
    /\ \/ /\ emails' = SaveRow(emails, email_models[p][idx[p]])
          /\ in_tx' = TRUE
          /\ pc' = [pc EXCEPT ![p] = "save_commit"]
          /\ UNCHANGED <<etl_jobs, durable_emails, durable_jobs, terminal_writes, faults, exc>>
       \/ /\ ExecuteFails
          /\ Raise(p, "db_save")
    /\ UNCHANGED <<source, apivars, vsvars, now, runs, job_id, raw_emails, email_models, idx,
                   new_emails, result, index_failed, histvars>>

\* EmailRepository.save: the commit; then the next email, or the index load
SaveCommit(p) ==
    /\ pc[p] = "save_commit"
    /\ \/ /\ Commit
          /\ IF idx[p] < Len(email_models[p])
             THEN /\ idx' = [idx EXCEPT ![p] = idx[p] + 1]
                  /\ pc' = [pc EXCEPT ![p] = "save_execute"]
             ELSE /\ idx' = [idx EXCEPT ![p] = 1]
                  /\ pc' = [pc EXCEPT ![p] = "exists"]
          /\ UNCHANGED <<faults, exc>>
       \/ /\ CommitFails
          /\ Raise(p, "db_save")
          /\ UNCHANGED idx
    /\ UNCHANGED <<source, apivars, vsvars, now, runs, job_id, raw_emails, email_models,
                   new_emails, result, index_failed, histvars>>

\* _load_emails_to_vector_store: "except Exception": log and continue
IndexLoadPropagates(p, e) ==
    /\ Raise(p, e)
    /\ UNCHANGED index_failed
IndexLoadFails(p, e) ==
    /\ index_failed' = [index_failed EXCEPT ![p] = TRUE]
    /\ pc' = [pc EXCEPT ![p] = "complete_execute"]
    /\ UNCHANGED exc

\* EmailSearchStore.email_exists: collection.get(ids=[email_id]) found an entry
NeverInIndex(coll, id) == FALSE
ExistsInIndex(coll, id) == id \in Ids(coll)
\* EmailSearchStore.email_exists: "except Exception: return False"
ExistsOnErrorTrue == TRUE
ExistsOnError == FALSE

\* _load_emails_to_vector_store: one EmailSearchStore.email_exists call, which
\* raises when the store is not initialized and answers False on a Chroma error
EmailExists(p) ==
    /\ pc[p] = "exists"
    /\ IF ~initialized
       THEN /\ IndexLoadFails(p, "index_not_initialized")
            /\ UNCHANGED <<new_emails, idx, faults>>
       ELSE /\ \E error \in BOOLEAN :
                LET found == IF error THEN ExistsOnError
                             ELSE ExistsInIndex(collection, email_models[p][idx[p]].id)
                IN  /\ IF error
                       THEN faults < MaxFaults /\ faults' = faults + 1
                       ELSE UNCHANGED faults
                    /\ new_emails' = [new_emails EXCEPT ![p] =
                            IF found THEN @ ELSE Append(@, email_models[p][idx[p]])]
            /\ IF idx[p] < Len(email_models[p])
               THEN /\ idx' = [idx EXCEPT ![p] = idx[p] + 1]
                    /\ UNCHANGED pc
               ELSE /\ UNCHANGED idx
                    /\ pc' = [pc EXCEPT ![p] =
                            IF new_emails'[p] # <<>> THEN "add_batch" ELSE "complete_execute"]
            /\ UNCHANGED <<index_failed, exc>>
    /\ UNCHANGED <<source, apivars, vsvars, dbvars, now, runs, job_id, raw_emails, email_models,
                   result, histvars>>

\* _load_emails_to_vector_store: EmailSearchStore.add_emails_batch(new_emails)
Issue(p, batch) ==
    {[proc |-> p, id |-> batch[i].id, present |-> batch[i].id \in Ids(collection)] :
         i \in 1..Len(batch)}
AddEmailsBatch(p) ==
    /\ pc[p] = "add_batch"
    /\ \/ /\ ~initialized
          /\ IndexLoadFails(p, "index_not_initialized")
          /\ UNCHANGED <<collection, faults, issued>>
       \/ /\ initialized
          /\ collection' = CollectionAdd(collection, new_emails[p])
          /\ issued' = issued \cup Issue(p, new_emails[p])
          /\ pc' = [pc EXCEPT ![p] = "complete_execute"]
          /\ UNCHANGED <<index_failed, exc, faults>>
       \/ /\ initialized
          /\ faults < MaxFaults
          /\ faults' = faults + 1
          /\ issued' = issued \cup Issue(p, new_emails[p])
          /\ IndexLoadFails(p, "index_add")
          /\ UNCHANGED collection
       \/ /\ initialized
          /\ HasExistingId(collection, new_emails[p])
          /\ issued' = issued \cup Issue(p, new_emails[p])
          /\ IndexLoadFails(p, "index_add")
          /\ UNCHANGED <<collection, faults>>
    /\ UNCHANGED <<source, repovars, fetchvars, toolvars, sessvars, crashes, at_start, vector_store,
                   initialized, dbvars, now, runs, job_id, raw_emails, email_models, idx,
                   new_emails, result, histvars>>

\* the count _complete_etl_job records
RecordsIndexed(p) == Len(new_emails[p])
RecordsProcessed(p) == Len(email_models[p])

\* _complete_etl_job -> ETLJobRepository.complete_job: the UPDATE
CompleteExecute(p) ==
    /\ pc[p] = "complete_execute"
    /\ \/ /\ etl_jobs' = UpdateJob(etl_jobs, job_id[p], COMPLETED, RecordsProcessed(p), NULL)
          /\ in_tx' = TRUE
          /\ pc' = [pc EXCEPT ![p] = "complete_commit"]
          /\ UNCHANGED <<emails, durable_emails, durable_jobs, terminal_writes, faults, exc>>
       \/ /\ ExecuteFails
          /\ Raise(p, "db_complete")
    /\ UNCHANGED <<source, apivars, vsvars, now, runs, job_id, raw_emails, email_models, idx,
                   new_emails, result, index_failed, histvars>>

\* where run_etl goes once the completion write is committed
AfterCompleteHandler(p) ==
    /\ Raise(p, "after_complete")
    /\ UNCHANGED <<result, first_success, successes>>
AfterComplete(p) ==
    /\ result' = [result EXCEPT ![p] =
            [status |-> "success", emails_processed |-> Len(email_models[p]),
             job_id |-> job_id[p], raised |-> NULL]]
    /\ pc' = [pc EXCEPT ![p] = "done"]
    /\ successes' = successes + 1
    /\ first_success' =
            IF first_success.taken THEN first_success
            ELSE [taken |-> TRUE, emails |-> emails, collection |-> collection]
    /\ UNCHANGED exc

\* ETLJobRepository.complete_job: the commit; run_etl returns its result
CompleteCommit(p) ==
    /\ pc[p] = "complete_commit"
    /\ \/ /\ Commit
          /\ AfterComplete(p)
          /\ UNCHANGED faults
       \/ /\ CommitFails
          /\ Raise(p, "db_complete")
          /\ UNCHANGED <<result, first_success, successes>>
    /\ UNCHANGED <<source, apivars, vsvars, now, runs, job_id, raw_emails, email_models, idx,
                   new_emails, index_failed, prev, calls>>

\* _fail_etl_job: the error_message it passes to complete_job
NoErrorMessage(p) == NULL
ErrorMessage(p) == exc[p]

\* except clause: _fail_etl_job -> ETLJobRepository.complete_job: the UPDATE
FailExecute(p) ==
    /\ pc[p] = "fail_execute"
    /\ \/ /\ etl_jobs' = UpdateJob(etl_jobs, job_id[p], FAILED, 0, ErrorMessage(p))
          /\ in_tx' = TRUE
          /\ pc' = [pc EXCEPT ![p] = "fail_commit"]
          /\ UNCHANGED <<emails, durable_emails, durable_jobs, terminal_writes, faults, result>>
       \/ /\ ExecuteFails
          /\ Propagate(p, "db_fail")
    /\ UNCHANGED <<source, apivars, vsvars, now, runs, job_id, raw_emails, email_models, idx,
                   new_emails, exc, index_failed, histvars>>

\* except clause: the commit, then "raise"
FailCommit(p) ==
    /\ pc[p] = "fail_commit"
    /\ \/ /\ Commit
          /\ Propagate(p, exc[p])
          /\ UNCHANGED faults
       \/ /\ CommitFails
          /\ Propagate(p, "db_fail")
    /\ UNCHANGED <<source, apivars, vsvars, now, runs, job_id, raw_emails, email_models, idx,
                   new_emails, exc, index_failed, histvars>>

\* ------------------------------------------------------------ specification
NoAnswer == [count |-> 0, found |-> FALSE, hits |-> <<>>]
NoStoreCall == [op |-> "none", outcome |-> "none", seq |-> 0, was_initialized |-> FALSE,
                was_connection |-> "none", input |-> 0, arg |-> NULL, answer |-> NoAnswer,
                error |-> NULL]

\* everything but the stores' contents and the session objects
InitCalls ==
    /\ etl_jobs = <<>>
    /\ in_tx = FALSE
    /\ durable_jobs = <<>>
    /\ now = 0
    /\ faults = 0
    /\ runs = 0
    /\ pc = [p \in Procs |-> "idle"]
    /\ job_id = [p \in Procs |-> 0]
    /\ raw_emails = [p \in Procs |-> <<>>]
    /\ email_models = [p \in Procs |-> <<>>]
    /\ idx = [p \in Procs |-> 0]
    /\ new_emails = [p \in Procs |-> <<>>]
    /\ exc = [p \in Procs |-> NULL]
    /\ result = [p \in Procs |-> NoResult]
    /\ index_failed = [p \in Procs |-> FALSE]
    /\ terminal_writes = [j \in JobIds |-> 0]
    /\ prev = [p \in Procs |-> [completed |-> FALSE, index_failed |-> FALSE, ids |-> {}]]
    /\ first_success = [taken |-> FALSE, emails |-> {}, collection |-> {}]
    /\ successes = 0
    /\ calls = 0
    /\ last_batch = [input |-> <<>>, ok |-> FALSE, seq |-> 0, again |-> FALSE]
    /\ failed_rows = {}
    /\ fetch_pc = "idle"
    /\ fetch_args = [max_emails |-> NoArg, emails_per_page |-> NoArg]
    /\ max_emails = 0
    /\ emails_per_page = 0
    /\ all_emails = <<>>
    /\ page_token = NULL
    /\ requests = <<>>
    /\ responses = <<>>
    /\ provided = <<>>
    /\ transport_failed = FALSE
    /\ fetch_result = NoFetchResult
    /\ tool_call = [tool |-> "none", sender |-> NULL, query |-> NULL, limit |-> 0]
    /\ index_queries = <<>>
    /\ tool_result = NoToolResult
    /\ handler = NoHandler
    /\ manager = NoManager
    /\ store_call = NoStoreCall
    /\ issued = {}
    /\ crashes = 0
    /\ at_start = [p \in Procs |-> [emails |-> {}, durable_emails |-> {}, collection |-> {}]]

\* the service as main.py wires it: an opened Database, and either an
\* initialized EmailSearchStore or none (run_etl then creates its own)
InitControl ==
    /\ \/ vector_store = "set" /\ initialized = TRUE
       \/ vector_store = "none" /\ initialized = FALSE
    /\ client = IF initialized THEN 1 ELSE 0
    /\ collection_handle = IF initialized THEN 2 ELSE 0
    /\ handles = IF initialized THEN 2 ELSE 0
    /\ connection = "open"
    /\ documents = {}
    /\ InitCalls

\* both stores as the fixtures create them: empty
InitStores ==
    /\ collection = {}
    /\ emails = {}
    /\ durable_emails = {}
    /\ InitControl

Init ==
    /\ source \in Sources
    /\ InitStores

RunEtl(p) ==
    \/ StartJobExecute(p)
    \/ StartJobCommit(p)
    \/ InitStore(p)
    \/ Fetch(p)
    \/ TransformEmails(p)
    \/ SaveExecute(p)
    \/ SaveCommit(p)
    \/ EmailExists(p)
    \/ AddEmailsBatch(p)
    \/ CompleteExecute(p)
    \/ CompleteCommit(p)
    \/ FailExecute(p)
    \/ FailCommit(p)

Next == \E p \in Sequential : RunEtl(p)

Spec == Init /\ [][Next]_vars

\* ------------------------------------------------------------ fetch_emails
\* `x or default`: None and 0 both give the default
OrDefault(arg, default) == IF ~arg.given \/ arg.value = 0 THEN default ELSE arg.value
\* `if not page_token`: None and the empty string both count as no cursor
NoCursor(c) == c \in {NULL, ""}
\* params["limit"]
PageLimitFixed(per_page, max, accumulated) == per_page
PageLimit(per_page, max, accumulated) == Min(per_page, max - accumulated)
\* all_emails[:max_emails]
Truncate(s, n) == SubSeq(s, 1, Min(Len(s), n))
\* a page request failing: the exception leaves fetch_emails, nothing is returned
PartialResult(accumulated) ==
    [status |-> "returned", emails |-> accumulated, requests_made |-> Len(requests)]
AbortResult(accumulated) ==
    [status |-> "raised", emails |-> <<>>, requests_made |-> Len(requests)]

\* fetch_emails entry: defaults, all_emails = [], page_token = None
FetchCall(m, pp) ==
    /\ fetch_pc = "idle"
    /\ fetch_args' = [max_emails |-> m, emails_per_page |-> pp]
    /\ max_emails' = OrDefault(m, MAX_EMAILS)
    /\ emails_per_page' = OrDefault(pp, EMAILS_PER_PAGE)
    /\ all_emails' = <<>>
    /\ page_token' = NULL
    /\ fetch_pc' = "loop"
    /\ UNCHANGED <<requests, responses, provided, transport_failed, fetch_result>>
    /\ UNCHANGED <<source, vsvars, dbvars, now, faults, runs, pc, locals, histvars, repovars, toolvars, sessvars, racevars>>

\* the while test, then session.get with the page's params
FetchRequest ==
    /\ fetch_pc = "loop"
    /\ IF Len(all_emails) < max_emails
       THEN /\ Len(requests) < MaxRequests
            /\ requests' = Append(requests,
                    [limit |-> PageLimit(emails_per_page, max_emails, Len(all_emails)),
                     page_token |-> IF NoCursor(page_token) THEN NULL ELSE page_token])
            /\ fetch_pc' = "await"
            /\ UNCHANGED fetch_result
       ELSE /\ fetch_result' = [status |-> "returned",
                                emails |-> Truncate(all_emails, max_emails),
                                requests_made |-> Len(requests)]
            /\ fetch_pc' = "done"
            /\ UNCHANGED requests
    /\ UNCHANGED <<fetch_args, max_emails, emails_per_page, all_emails, page_token,
                   responses, provided, transport_failed>>
    /\ UNCHANGED <<source, vsvars, dbvars, now, faults, runs, pc, locals, histvars, repovars, toolvars, sessvars, racevars>>

\* the provider answers with n records and a cursor; extend, then the two breaks
FetchResponse(n, cursor) ==
    /\ fetch_pc = "await"
    /\ n <= requests[Len(requests)].limit + PageOvershoot
    /\ LET data == [i \in 1..n |-> Len(provided) + i]
       IN  /\ provided' = provided \o data
           /\ responses' = Append(responses, [count |-> n, next_cursor |-> cursor])
           /\ all_emails' = all_emails \o data
           /\ page_token' = cursor
           /\ IF NoCursor(cursor) \/ Len(all_emails') >= max_emails
              THEN /\ fetch_result' = [status |-> "returned",
                                       emails |-> Truncate(all_emails', max_emails),
                                       requests_made |-> Len(requests)]
                   /\ fetch_pc' = "done"
              ELSE /\ fetch_pc' = "loop"
                   /\ UNCHANGED fetch_result
    /\ UNCHANGED <<fetch_args, max_emails, emails_per_page, requests, transport_failed>>
    /\ UNCHANGED <<source, vsvars, dbvars, now, faults, runs, pc, locals, histvars, repovars, toolvars, sessvars, racevars>>

\* session.get / raise_for_status / response.json raising: logged and re-raised
FetchError ==
    /\ fetch_pc = "await"
    /\ faults < MaxFaults
    /\ faults' = faults + 1
    /\ transport_failed' = TRUE
    /\ fetch_result' = AbortResult(all_emails)
    /\ fetch_pc' = "done"
    /\ UNCHANGED <<fetch_args, max_emails, emails_per_page, all_emails, page_token,
                   requests, responses, provided>>
    /\ UNCHANGED <<source, vsvars, dbvars, now, runs, pc, locals, histvars, repovars, toolvars, sessvars, racevars>>

FetchArgs(top) == {NoArg} \cup [given : {TRUE}, value : 0..top]
Cursors == {NULL, "", "c1", "c2"}

InitFetch ==
    /\ source = <<>>
    /\ InitStores

NextFetch ==
    \/ \E m \in FetchArgs(MaxCount), pp \in FetchArgs(MaxPageSize) : FetchCall(m, pp)
    \/ FetchRequest
    \/ \E n \in 0..(EMAILS_PER_PAGE + PageOvershoot), cursor \in Cursors : FetchResponse(n, cursor)
    \/ FetchError

SpecFetch == InitFetch /\ [][NextFetch]_vars

\* ------------------------------------------------------------ query tools
Queries == {"email", "budget"}
Senders == {"ann@x.com", "ann@y.org", "Ann", "bob@x.com"}
Limits == 1..MaxLimit

\* Embedding distance between a query text and an indexed document, in
\* thousandths.
Distance(q, id) ==
    IF q = "email" THEN (IF id = "e1" THEN 412 ELSE 414)
    ELSE (IF id = "e1" THEN 750 ELSE 250)

\* collection.query(query_texts, n_results, where): the entries that pass the
\* metadata filter, nearest first, at most n_results of them
MatchesIgnoreFilter(e, field, value) == TRUE
Matches(e, field, value) ==
    CASE field = "from_email" -> e.from_email = value
      [] field = "from_name" -> e.from_name = value
      [] OTHER -> TRUE
RECURSIVE FarthestFirst(_, _)
FarthestFirst(entries, q) ==
    IF entries = {} THEN <<>>
    ELSE LET e == CHOOSE x \in entries :
                      \A y \in entries : Distance(q, x.id) >= Distance(q, y.id)
         IN  <<[email_id |-> e.id, distance |-> Distance(q, e.id)]>>
                 \o FarthestFirst(entries \ {e}, q)
RECURSIVE NearestFirst(_, _)
NearestFirst(entries, q) ==
    IF entries = {} THEN <<>>
    ELSE LET e == CHOOSE x \in entries :
                      \A y \in entries : Distance(q, x.id) <= Distance(q, y.id)
         IN  <<[email_id |-> e.id, distance |-> Distance(q, e.id)]>>
                 \o NearestFirst(entries \ {e}, q)
SearchSimilar(coll, q, limit, field, value) ==
    Truncate(NearestFirst({e \in coll : Matches(e, field, value)}, q), limit)

\* EmailRepository.get_by_id: SELECT * FROM emails WHERE id = ?
HasRow(rows, id) == \E r \in rows : r.id = id
GetById(rows, id) == CHOOSE r \in rows : r.id = id

\* the summary a tool builds from a hydrated row; email_id names the hit it
\* was built from
Summarise(row) ==
    [email_id |-> row.id,
     from_name |-> IF row.from_name = "" THEN "Unknown" ELSE row.from_name,
     from_email |-> row.from_email]
MissingSummary(id) == [email_id |-> id, from_name |-> "Unknown", from_email |-> ""]

\* round(result['distance'], 2), distances counted in thousandths
Round2(d) == ((d + 5) \div 10) * 10
\* the entry of one hit: search_emails adds relevance_score, the sender search
\* does not
Entry(hit, row, scored) ==
    IF scored
    THEN [email_id |-> row.id, from_name |-> Summarise(row).from_name,
          from_email |-> row.from_email, relevance_score |-> Round2(hit.distance)]
    ELSE Summarise(row)

\* the hydration loop: `if email:` skips a hit whose id has no row
RECURSIVE HydrateKeepMissing(_, _, _)
HydrateKeepMissing(hits, rows, scored) ==
    IF hits = <<>> THEN <<>>
    ELSE (IF HasRow(rows, hits[1].email_id)
          THEN <<Entry(hits[1], GetById(rows, hits[1].email_id), scored)>>
          ELSE <<MissingSummary(hits[1].email_id)>>)
         \o HydrateKeepMissing(Tail(hits), rows, scored)
RECURSIVE Hydrate(_, _, _)
Hydrate(hits, rows, scored) ==
    IF hits = <<>> THEN <<>>
    ELSE (IF HasRow(rows, hits[1].email_id)
          THEN <<Entry(hits[1], GetById(rows, hits[1].email_id), scored)>>
          ELSE <<>>)
         \o Hydrate(Tail(hits), rows, scored)

\* EmailRepository.get_recent: SELECT * FROM emails ORDER BY date DESC LIMIT ?
RECURSIVE RecentFirst(_)
RecentFirst(rows) ==
    IF rows = {} THEN <<>>
    ELSE LET r == CHOOSE x \in rows : \A y \in rows : x.date >= y.date
         IN  <<r>> \o RecentFirst(rows \ {r})
GetRecent(rows, limit) ==
    LET sorted == Truncate(RecentFirst(rows), limit)
    IN  [i \in 1..Len(sorted) |-> Summarise(sorted[i])]

\* `except Exception: return []` of every tool
ToolErrorRaised == [status |-> "raised", emails |-> <<>>, failed |-> TRUE]
ToolError == [status |-> "returned", emails |-> <<>>, failed |-> TRUE]
ToolReturn(summaries) == [status |-> "returned", emails |-> summaries, failed |-> FALSE]

\* one Search Index query of a tool call, as logged
QueryLog(field, value, limit, outcome, hits) ==
    [field |-> field, value |-> value, limit |-> limit, outcome |-> outcome, hits |-> hits]

\* the second query of search_emails_by_sender: `if not vector_results`
NameQueryAlways(email_hits) == TRUE
NameQueryNeeded(email_hits) == email_hits = <<>>

\* EmailSearchTools.search_emails: the index query (failing when the store is
\* not initialized, or inside Chroma), then the hydration loop (failing when a
\* row read raises)
SearchEmailsTool(q, limit) ==
    /\ tool_call' = [tool |-> "search_emails", sender |-> NULL, query |-> q, limit |-> limit]
    /\ \/ /\ initialized
          /\ LET hits == SearchSimilar(collection, q, limit, "none", NULL)
             IN  /\ index_queries' = <<QueryLog("none", NULL, limit, "ok", hits)>>
                 /\ \/ tool_result' = ToolReturn(Hydrate(hits, emails, TRUE))
                    \/ hits # <<>> /\ tool_result' = ToolError
       \/ /\ index_queries' = <<QueryLog("none", NULL, limit, "raised", <<>>)>>
          /\ tool_result' = ToolError
    /\ UNCHANGED <<source, vsvars, dbvars, now, faults, runs, pc, locals, histvars,
                   repovars, fetchvars, sessvars, racevars>>

\* EmailSearchTools.search_emails_by_sender: the query filtered by from_email,
\* the query filtered by from_name when the first found nothing, hydration
SearchEmailsBySenderTool(sender, q, limit) ==
    /\ tool_call' = [tool |-> "search_emails_by_sender", sender |-> sender,
                     query |-> q, limit |-> limit]
    /\ LET text == IF q = NULL THEN "email" ELSE q
           by_email == SearchSimilar(collection, text, limit, "from_email", sender)
           by_name == SearchSimilar(collection, text, limit, "from_name", sender)
           first == QueryLog("from_email", sender, limit, "ok", by_email)
       IN  \/ /\ initialized
              /\ ~NameQueryNeeded(by_email)
              /\ index_queries' = <<first>>
              /\ \/ tool_result' = ToolReturn(Hydrate(by_email, emails, FALSE))
                 \/ tool_result' = ToolError
           \/ /\ initialized
              /\ NameQueryNeeded(by_email)
              /\ \/ /\ index_queries' =
                           <<first, QueryLog("from_name", sender, limit, "ok", by_name)>>
                    /\ \/ tool_result' = ToolReturn(Hydrate(by_name, emails, FALSE))
                       \/ by_name # <<>> /\ tool_result' = ToolError
                 \/ /\ index_queries' =
                           <<first, QueryLog("from_name", sender, limit, "raised", <<>>)>>
                    /\ tool_result' = ToolError
           \/ /\ index_queries' = <<QueryLog("from_email", sender, limit, "raised", <<>>)>>
              /\ tool_result' = ToolError
    /\ UNCHANGED <<source, vsvars, dbvars, now, faults, runs, pc, locals, histvars,
                   repovars, fetchvars, sessvars, racevars>>

\* EmailSearchTools.get_recent_emails: one read of the Record Store
GetRecentEmailsTool(limit) ==
    /\ tool_call' = [tool |-> "get_recent_emails", sender |-> NULL, query |-> NULL,
                     limit |-> limit]
    /\ index_queries' = <<>>
    /\ \/ tool_result' = ToolReturn(GetRecent(emails, limit))
       \/ tool_result' = ToolError
    /\ UNCHANGED <<source, vsvars, dbvars, now, faults, runs, pc, locals, histvars,
                   repovars, fetchvars, sessvars, racevars>>

\* The two stores persist independently (a SQLite file, a Chroma directory):
\* each holds at most one version of each message, and either may hold ids
\* the other lacks.
StoredRows ==
    {EmailModel([id |-> i, kind |-> k], 0) : i \in EmailIds, k \in {"valid", "missing_from"}}
StoreContents == {rows \in SUBSET StoredRows : \A r1, r2 \in rows : r1.id = r2.id => r1 = r2}

InitTools ==
    /\ source = <<>>
    /\ collection \in StoreContents
    /\ emails \in StoreContents
    /\ durable_emails = emails
    /\ InitControl

NextTools ==
    \/ \E q \in Queries, limit \in Limits : SearchEmailsTool(q, limit) /\ UNCHANGED <<handler, manager>>
    \/ \E sender \in Senders, q \in Queries \cup {NULL}, limit \in Limits :
           SearchEmailsBySenderTool(sender, q, limit) /\ UNCHANGED <<handler, manager>>
    \/ \E limit \in Limits : GetRecentEmailsTool(limit) /\ UNCHANGED <<handler, manager>>

SpecTools == InitTools /\ [][NextTools]_vars

\* ------------------------------------------------------------ the tool handlers
\* EmailSearchTools.format_emails_for_llm
FormatEmailsForLlm(summaries) ==
    IF summaries = <<>> THEN [text |-> "No emails found.", emails |-> <<>>]
    ELSE [text |-> "Found", emails |-> summaries]

\* a search handler after its tool call: format the result and await
\* params.result_callback with it; an exception of the tool would leave the
\* handler before the callback
HandlerAfterTool(name) ==
    /\ handler' = IF tool_result'.status = "raised"
                  THEN [name |-> name, input |-> NoSend, callbacks |-> <<>>, raised |-> TRUE]
                  ELSE [name |-> name, input |-> NoSend,
                        callbacks |-> <<FormatEmailsForLlm(tool_result'.emails)>>,
                        raised |-> FALSE]
    /\ UNCHANGED manager

SearchEmailsHandler(q, limit) ==
    SearchEmailsTool(q, limit) /\ HandlerAfterTool("search_emails_handler")
SearchEmailsBySenderHandler(sender, q, limit) ==
    SearchEmailsBySenderTool(sender, q, limit)
        /\ HandlerAfterTool("search_emails_by_sender_handler")
GetRecentEmailsHandler(limit) ==
    GetRecentEmailsTool(limit) /\ HandlerAfterTool("get_recent_emails_handler")

\* what EmailTransport.send_email does: result.success True, result.success
\* False, or an exception
TransportOutcomes == {"sent", "rejected", "raised"}
\* the message argument: a text, or None when the call left it out
Messages == {"hello", NULL}
Recipients == {"bob@x.com"}

\* EmailService.send_email: format_email_message raises on None; every
\* exception gives False, otherwise result.success
SendAlwaysTrue(message, outcome) == TRUE
EmailServiceSend(message, outcome) == message # NULL /\ outcome = "sent"

\* send_email_handler
SendEmailHandler(to_email, message, outcome) ==
    /\ handler' = [name |-> "send_email_handler",
                   input |-> [message |-> message, outcome |-> outcome],
                   callbacks |-> <<[success |-> EmailServiceSend(message, outcome),
                                   to_email |-> to_email]>>,
                   raised |-> FALSE]
    /\ UNCHANGED <<source, vsvars, dbvars, now, faults, runs, pc, locals, histvars,
                   repovars, fetchvars, sessvars, racevars, tool_call, index_queries,
                   tool_result, manager>>

NextHandlers ==
    \/ \E q \in Queries, limit \in Limits : SearchEmailsHandler(q, limit)
    \/ \E sender \in Senders, q \in Queries \cup {NULL}, limit \in Limits :
           SearchEmailsBySenderHandler(sender, q, limit)
    \/ \E limit \in Limits : GetRecentEmailsHandler(limit)
    \/ \E to_email \in Recipients, message \in Messages, outcome \in TransportOutcomes :
           SendEmailHandler(to_email, message, outcome)

SpecHandlers == InitTools /\ [][NextHandlers]_vars

\* ------------------------------------------------------------ the transport manager
\* settings.EMAIL_MODE, 'development' when the settings have no such field
EmailModes == {"test", "development", "production", "staging"}
\* the nylas_api_key and nylas_grant_id arguments
Credentials == {NULL, "secret"}

\* SimpleTransportManager.__init__: email_mode and test_transport are
\* assigned; the statements assigning production_transport are commented out
NewManager(mode, nylas_api_key, nylas_grant_id) ==
    /\ manager' = [email_mode |-> mode, test_transport |-> "mailpit",
                   production_transport |-> ABSENT, got |-> "none"]
    /\ UNCHANGED <<source, vsvars, dbvars, now, faults, runs, pc, locals, histvars,
                   repovars, fetchvars, sessvars, racevars, tool_call, index_queries,
                   tool_result, handler>>

\* SimpleTransportManager.get_transport
ProductionTransport(m) == m.production_transport
GetTransport(m) ==
    IF m.email_mode \in {"test", "development"} THEN m.test_transport
    ELSE IF ProductionTransport(m) = ABSENT THEN "AttributeError"
    ELSE IF ProductionTransport(m) # NULL THEN ProductionTransport(m)
    ELSE m.test_transport

GetTransportCall ==
    /\ manager.email_mode # NULL
    /\ manager' = [manager EXCEPT !.got = GetTransport(manager)]
    /\ UNCHANGED <<source, vsvars, dbvars, now, faults, runs, pc, locals, histvars,
                   repovars, fetchvars, sessvars, racevars, tool_call, index_queries,
                   tool_result, handler>>

NextTransport ==
    \/ \E mode \in EmailModes, key \in Credentials, grant \in Credentials :
           NewManager(mode, key, grant)
    \/ GetTransportCall

SpecTransport == InitTools /\ [][NextTransport]_vars

\* ETL runs over well-formed provider records, with search_emails_by_sender
\* called before, between and after the runs
SearchBySenderBetweenRuns(sender, q, limit) ==
    /\ \A p \in Procs : pc[p] \in {"idle", "done"}
    /\ SearchEmailsBySenderTool(sender, q, limit)
    /\ UNCHANGED <<handler, manager>>

InitSearch ==
    /\ source \in {src \in Sources : \A i \in 1..Len(src) : src[i].kind = "valid"}
    /\ InitStores

NextSearch ==
    \/ Next
    \/ \E sender \in Senders : SearchBySenderBetweenRuns(sender, NULL, MaxLimit)

SpecSearch == InitSearch /\ [][NextSearch]_vars

\* ------------------------------------------------------------ three-record batches
\* run_etl over a provider batch of three records, each either complete or
\* lacking its `from` list.
ScenarioIds == <<"e1", "e2", "e3">>
ScenarioKinds == {"valid", "missing_from"}
ScenarioSources ==
    {[i \in 1..3 |-> [id |-> ScenarioIds[i], kind |-> k[i]]] :
        k \in [1..3 -> ScenarioKinds]}

InitScenario ==
    /\ source \in ScenarioSources
    /\ InitStores

SpecScenario == InitScenario /\ [][Next]_vars

\* ------------------------------------------------------------ the repository API
\* Database.complete_etl_job -> ETLJobRepository.complete_job called by any
\* holder of the Database, between ETL runs: the UPDATE and the commit
CompleteJobCall(j, st, msg) ==
    /\ \A p \in Procs : pc[p] \in {"idle", "done"}
    /\ calls < MaxCalls
    /\ calls' = calls + 1
    /\ j \in 1..Len(etl_jobs)
    /\ \/ /\ etl_jobs' = UpdateJob(etl_jobs, j, st, 0, msg)
          /\ durable_jobs' = etl_jobs'
          /\ durable_emails' = emails
          /\ in_tx' = FALSE
          /\ terminal_writes' = [k \in JobIds |->
                  IF IsTerminalWrite(etl_jobs', k)
                  THEN terminal_writes[k] + 1 ELSE terminal_writes[k]]
          /\ UNCHANGED <<emails, faults>>
       \/ ExecuteFails
       \/ /\ etl_jobs' = UpdateJob(etl_jobs, j, st, 0, msg)
          /\ faults < MaxFaults
          /\ faults' = faults + 1
          /\ in_tx' = TRUE
          /\ UNCHANGED <<emails, durable_emails, durable_jobs, terminal_writes>>
    /\ UNCHANGED <<source, apivars, vsvars, now, runs, pc, locals, prev, first_success, successes>>

\* Email Records a caller of the repository builds itself, stamped before any
\* clock reading of an ETL run
BatchStamps == {0, -1}
BatchRows ==
    {EmailModel([id |-> i, kind |-> "valid"], t) : i \in EmailIds, t \in BatchStamps}
Batches ==
    {<<>>} \cup {<<r>> : r \in BatchRows} \cup (BatchRows \X BatchRows)

\* connection.executemany(INSERT OR IGNORE ...): the rows after the first k
\* parameter sets have been executed
RECURSIVE ExecuteMany(_, _, _)
ExecuteMany(rows, batch, k) ==
    IF k = 0 THEN rows ELSE InsertOrIgnore(ExecuteMany(rows, batch, k - 1), batch[k])

\* history: the call repeats the input of the successful save_batch call that
\* came just before it
Repeats(batch) == last_batch.ok /\ last_batch.seq = calls /\ last_batch.input = batch

\* Database.save_email_batch -> EmailRepository.save_batch called by any holder
\* of the Database, between ETL runs.  executemany raising at the k-th
\* parameter set leaves the first k-1 rows in the open transaction: the except
\* clause logs and re-raises, it does not roll back.
SaveBatchCall(batch) ==
    /\ \A p \in Procs : pc[p] \in {"idle", "done"}
    /\ calls < MaxBatchCalls
    /\ calls' = calls + 1
    /\ IF batch = <<>>
       THEN /\ last_batch' = [input |-> batch, ok |-> TRUE, seq |-> calls',
                              again |-> Repeats(batch)]
            /\ UNCHANGED <<dbvars, faults, failed_rows>>
       ELSE \/ /\ emails' = ExecuteMany(emails, batch, Len(batch))
               /\ durable_emails' = emails'
               /\ durable_jobs' = etl_jobs
               /\ in_tx' = FALSE
               /\ terminal_writes' = [k \in JobIds |->
                       IF IsTerminalWrite(etl_jobs, k)
                       THEN terminal_writes[k] + 1 ELSE terminal_writes[k]]
               /\ last_batch' = [input |-> batch, ok |-> TRUE, seq |-> calls',
                                 again |-> Repeats(batch)]
               /\ failed_rows' = (failed_rows \cap emails) \ Range(batch)
               /\ UNCHANGED <<etl_jobs, faults>>
            \/ \E k \in 1..Len(batch) :
               /\ faults < MaxFaults
               /\ faults' = faults + 1
               /\ emails' = ExecuteMany(emails, batch, k - 1)
               /\ in_tx' = (in_tx \/ k > 1)
               /\ last_batch' = [input |-> batch, ok |-> FALSE, seq |-> calls',
                                 again |-> Repeats(batch)]
               /\ failed_rows' = (failed_rows \cap emails) \cup (emails' \ emails)
               /\ UNCHANGED <<etl_jobs, durable_emails, durable_jobs, terminal_writes>>
            \/ /\ faults < MaxFaults
               /\ faults' = faults + 1
               /\ last_batch' = [input |-> batch, ok |-> FALSE, seq |-> calls',
                                 again |-> Repeats(batch)]
               /\ \/ /\ emails' = ExecuteMany(emails, batch, Len(batch))
                     /\ in_tx' = TRUE
                     /\ failed_rows' = (failed_rows \cap emails) \ Range(batch)
                     /\ UNCHANGED etl_jobs
                  \/ /\ emails' = durable_emails
                     /\ etl_jobs' = durable_jobs
                     /\ in_tx' = FALSE
                     /\ failed_rows' = {}
               /\ UNCHANGED <<durable_emails, durable_jobs, terminal_writes>>
    /\ UNCHANGED <<source, vsvars, now, runs, pc, locals, prev, first_success, successes,
                   fetchvars, toolvars, sessvars, racevars>>

NextApi ==
    \/ Next
    \/ \E j \in JobIds, st \in Terminal, msg \in {NULL, "manual"} : CompleteJobCall(j, st, msg)

SpecApi == Init /\ [][NextApi]_vars

\* save_batch on its own, over any committed Record Store contents
PriorContents == {rows \in SUBSET BatchRows : \A r1, r2 \in rows : r1.id = r2.id => r1 = r2}
InitRepo ==
    /\ source = <<>>
    /\ collection = {}
    /\ emails \in PriorContents
    /\ durable_emails = emails
    /\ InitControl

NextRepo == \E batch \in Batches : SaveBatchCall(batch)

SpecRepo == InitRepo /\ [][NextRepo]_vars

\* ------------------------------------------------------------ session objects
\* Direct calls on the two session objects, an EmailSearchStore and a
\* Database, from construction on.

\* subject and body texts, as sequences of characters
Texts == {<<>>, <<" ">>, <<"a">>, <<" ", "a", " ">>}
ContentEmails == [id : EmailIds, subject : Texts, body : Texts]
ContentBatches ==
    {<<>>} \cup {<<e>> : e \in ContentEmails}
           \cup {<<e, f>> : e \in {x \in ContentEmails : x.id = "e1"},
                            f \in {x \in ContentEmails : x.id = "e2" /\ x.subject = x.body}}

\* str.strip()
NoStrip(t) == t
RECURSIVE LStrip(_)
LStrip(t) == IF t # <<>> /\ t[1] = " " THEN LStrip(Tail(t)) ELSE t
RECURSIVE RStrip(_)
RStrip(t) == IF t # <<>> /\ t[Len(t)] = " " THEN RStrip(SubSeq(t, 1, Len(t) - 1)) ELSE t
Strip(t) == RStrip(LStrip(t))

\* "\n\n".join(content_parts)
RECURSIVE Join(_)
Join(parts) ==
    IF Len(parts) = 1 THEN parts[1] ELSE parts[1] \o <<"\n\n">> \o Join(Tail(parts))

\* EmailSearchStore._prepare_email_content
PrepareEmailContent(email) ==
    LET subject_part == IF email.subject # <<>> /\ Strip(email.subject) # <<>>
                        THEN <<(<<"Subject: ">> \o Strip(email.subject))>> ELSE <<>>
        body_part == IF email.body # <<>> /\ Strip(email.body) # <<>>
                     THEN <<(<<"Body: ">> \o Strip(email.body))>> ELSE <<>>
        content_parts == subject_part \o body_part
    IN  IF content_parts # <<>> THEN Join(content_parts) ELSE <<"Empty email">>

\* EmailSearchStore._ensure_initialized passes
StoreReadyAlways == TRUE
StoreReady == initialized /\ collection_handle # 0

\* Database.close: "if self.connection:"
HasConnectionAlways(c) == TRUE
HasConnection(c) == c # "none"

MaxSessionCalls == 3  \* direct calls on the session objects in one behaviour
SessionCalls == store_call.seq + calls

StoreRecord(op, outcome, n, arg, answer, error) ==
    [op |-> op, outcome |-> outcome, seq |-> store_call.seq + 1,
     was_initialized |-> initialized, was_connection |-> connection,
     input |-> n, arg |-> arg, answer |-> answer, error |-> error]
StoreCall(op, outcome, n) == store_call' = StoreRecord(op, outcome, n, NULL, NoAnswer, NULL)
StoreArg(op, outcome, arg, answer) ==
    store_call' = StoreRecord(op, outcome, 0, arg, answer, NULL)
\* _ensure_initialized raising; the operation's body is not entered
NotInitialized(op, n, arg) ==
    /\ store_call' = StoreRecord(op, "raised", n, arg, NoAnswer, "RuntimeError")
    /\ UNCHANGED <<collection, documents, faults>>

\* the metadata entry and the document collection.add stores for one email
IndexEntry(e) == EmailModel([id |-> e.id, kind |-> "valid"], 0)
IndexDocument(e) ==
    [id |-> e.id, subject |-> e.subject, body |-> e.body, document |-> PrepareEmailContent(e)]

\* EmailSearchStore.init_store called on the store
InitStoreCall ==
    /\ IF InitStoreReturnsEarly
       THEN /\ StoreCall("init_store", "returned", 0)
            /\ UNCHANGED <<handlevars, initialized, faults>>
       ELSE \/ /\ InitStoreBody("ok")
               /\ StoreCall("init_store", "returned", 0)
               /\ UNCHANGED faults
            \/ /\ faults < MaxFaults
               /\ faults' = faults + 1
               /\ \E outcome \in InitStoreOutcomes \ {"ok"} : InitStoreBody(outcome)
               /\ StoreCall("init_store", "raised", 0)
    /\ UNCHANGED <<source, vector_store, collection, dbvars, now, runs, pc, locals, histvars,
                   repovars, fetchvars, toolvars, racevars, connection, documents>>

CloseStoreKeepsInitialized ==
    /\ StoreCall("close_store", "returned", 0)
    /\ UNCHANGED <<source, vector_store, collection, dbvars, now, faults, runs, pc, locals,
                   histvars, repovars, fetchvars, toolvars, racevars, handlevars, connection,
                   documents, initialized>>
\* EmailSearchStore.close
CloseStoreCall ==
    /\ initialized' = FALSE
    /\ StoreCall("close_store", "returned", 0)
    /\ UNCHANGED <<source, vector_store, collection, dbvars, now, faults, runs, pc, locals,
                   histvars, repovars, fetchvars, toolvars, racevars, handlevars, connection, documents>>

\* EmailSearchStore.add_emails_batch called on the store
AddEmailsBatchCall(batch) ==
    /\ IF ~StoreReady
       THEN NotInitialized("add_emails_batch", Len(batch), NULL)
       ELSE IF batch = <<>>
       THEN /\ StoreCall("add_emails_batch", "returned", Len(batch))
            /\ UNCHANGED <<collection, documents, faults>>
       ELSE \/ /\ collection' = CollectionAdd(collection,
                                      [i \in 1..Len(batch) |-> IndexEntry(batch[i])])
               /\ documents' = documents \cup
                      {IndexDocument(batch[i]) :
                           i \in {k \in 1..Len(batch) : batch[k].id \notin Ids(collection)}}
               /\ StoreCall("add_emails_batch", "returned", Len(batch))
               /\ UNCHANGED faults
            \/ /\ faults < MaxFaults
               /\ faults' = faults + 1
               /\ StoreCall("add_emails_batch", "raised", Len(batch))
               /\ UNCHANGED <<collection, documents>>
            \/ /\ HasExistingId(collection, batch)
               /\ StoreCall("add_emails_batch", "raised", Len(batch))
               /\ UNCHANGED <<collection, documents, faults>>
    /\ UNCHANGED <<source, vector_store, initialized, dbvars, now, runs, pc, locals, histvars,
                   repovars, fetchvars, toolvars, racevars, handlevars, connection>>

\* EmailSearchStore.add_email called on the store
AddEmailCall(email) ==
    /\ IF ~StoreReady
       THEN NotInitialized("add_email", 1, email.id)
       ELSE \/ /\ collection' = CollectionAdd(collection, <<IndexEntry(email)>>)
               /\ documents' = IF email.id \in Ids(collection) THEN documents
                                ELSE documents \cup {IndexDocument(email)}
               /\ StoreArg("add_email", "returned", email.id, NoAnswer)
               /\ UNCHANGED faults
            \/ /\ faults < MaxFaults
               /\ faults' = faults + 1
               /\ StoreArg("add_email", "raised", email.id, NoAnswer)
               /\ UNCHANGED <<collection, documents>>
            \/ /\ HasExistingId(collection, <<email>>)
               /\ StoreArg("add_email", "raised", email.id, NoAnswer)
               /\ UNCHANGED <<collection, documents, faults>>
    /\ UNCHANGED <<source, vector_store, initialized, dbvars, now, runs, pc, locals, histvars,
                   repovars, fetchvars, toolvars, racevars, handlevars, connection>>

\* EmailSearchStore.search_similar called on the store, without filters
SearchSimilarCall(query, limit) ==
    /\ IF ~StoreReady
       THEN NotInitialized("search_similar", 0, query)
       ELSE /\ \/ /\ StoreArg("search_similar", "returned", query,
                                [NoAnswer EXCEPT !.hits =
                                     SearchSimilar(collection, query, limit, "none", NULL)])
                  /\ UNCHANGED faults
               \/ /\ faults < MaxFaults
                  /\ faults' = faults + 1
                  /\ StoreArg("search_similar", "raised", query, NoAnswer)
            /\ UNCHANGED <<collection, documents>>
    /\ UNCHANGED <<source, vector_store, initialized, dbvars, now, runs, pc, locals, histvars,
                   repovars, fetchvars, toolvars, racevars, handlevars, connection>>

\* EmailSearchStore.get_count called on the store
GetCountCall ==
    /\ IF ~StoreReady
       THEN NotInitialized("get_count", 0, NULL)
       ELSE /\ \/ /\ StoreArg("get_count", "returned", NULL,
                                [NoAnswer EXCEPT !.count = Cardinality(collection)])
                  /\ UNCHANGED faults
               \/ /\ faults < MaxFaults
                  /\ faults' = faults + 1
                  /\ StoreCall("get_count", "raised", 0)
            /\ UNCHANGED <<collection, documents>>
    /\ UNCHANGED <<source, vector_store, initialized, dbvars, now, runs, pc, locals, histvars,
                   repovars, fetchvars, toolvars, racevars, handlevars, connection>>

\* EmailSearchStore.email_exists called on the store
EmailExistsCall(id) ==
    /\ IF ~StoreReady
       THEN NotInitialized("email_exists", 0, id)
       ELSE /\ \/ /\ StoreArg("email_exists", "returned", id,
                                [NoAnswer EXCEPT !.found = ExistsInIndex(collection, id)])
                  /\ UNCHANGED faults
               \/ /\ faults < MaxFaults
                  /\ faults' = faults + 1
                  /\ StoreArg("email_exists", "returned", id,
                                [NoAnswer EXCEPT !.found = ExistsOnError])
            /\ UNCHANGED <<collection, documents>>
    /\ UNCHANGED <<source, vector_store, initialized, dbvars, now, runs, pc, locals, histvars,
                   repovars, fetchvars, toolvars, racevars, handlevars, connection>>

\* EmailSearchStore.delete_email called on the store
DeleteEmailCall(id) ==
    /\ IF ~StoreReady
       THEN NotInitialized("delete_email", 0, id)
       ELSE \/ /\ collection' = {e \in collection : e.id # id}
               /\ documents' = {d \in documents : d.id # id}
               /\ StoreArg("delete_email", "returned", id, NoAnswer)
               /\ UNCHANGED faults
            \/ /\ faults < MaxFaults
               /\ faults' = faults + 1
               /\ StoreArg("delete_email", "raised", id, NoAnswer)
               /\ UNCHANGED <<collection, documents>>
    /\ UNCHANGED <<source, vector_store, initialized, dbvars, now, runs, pc, locals, histvars,
                   repovars, fetchvars, toolvars, racevars, handlevars, connection>>

\* a connection opened on the database file sees what is committed
FreshConnection ==
    /\ connection' = "open"
    /\ emails' = durable_emails
    /\ etl_jobs' = durable_jobs
    /\ in_tx' = FALSE

\* Database.init_db: aiosqlite.connect, the PRAGMAs, create_tables
InitDbCall ==
    /\ SessionCalls < MaxSessionCalls
    /\ \/ /\ FreshConnection
          /\ StoreCall("init_db", "returned", 0)
          /\ UNCHANGED faults
       \/ /\ faults < MaxFaults
          /\ faults' = faults + 1
          /\ StoreCall("init_db", "raised", 0)
          /\ \/ UNCHANGED <<connection, emails, etl_jobs, in_tx>>
             \/ FreshConnection
    /\ UNCHANGED <<source, vsvars, durable_emails, durable_jobs, terminal_writes, now, runs, pc,
                   locals, histvars, repovars, fetchvars, toolvars, racevars, handlevars,
                   documents>>

\* closing the connection abandons its open transaction
Disconnect ==
    /\ connection' = "closed"
    /\ emails' = durable_emails
    /\ etl_jobs' = durable_jobs
    /\ in_tx' = FALSE

\* Database.close: "if self.connection: await self.connection.close()".  The
\* attribute keeps the closed connection object, whose own close() returns at
\* once when it is already closed.
CloseDbCall ==
    /\ SessionCalls < MaxSessionCalls
    /\ IF HasConnection(connection)
       THEN CASE connection = "open" ->
                     /\ Disconnect
                     /\ \/ /\ StoreCall("close_db", "returned", 0)
                           /\ UNCHANGED faults
                        \/ /\ faults < MaxFaults
                           /\ faults' = faults + 1
                           /\ StoreCall("close_db", "raised", 0)
              [] connection = "closed" ->
                     /\ StoreCall("close_db", "returned", 0)
                     /\ UNCHANGED <<connection, emails, etl_jobs, in_tx, faults>>
              [] OTHER ->
                     /\ StoreCall("close_db", "raised", 0)
                     /\ UNCHANGED <<connection, emails, etl_jobs, in_tx, faults>>
       ELSE /\ StoreCall("close_db", "returned", 0)
            /\ UNCHANGED <<connection, emails, etl_jobs, in_tx, faults>>
    /\ UNCHANGED <<source, vsvars, durable_emails, durable_jobs, terminal_writes, now, runs, pc,
                   locals, histvars, repovars, fetchvars, toolvars, racevars, handlevars,
                   documents>>

\* EmailRepository.save_batch on a repository built over the Database's
\* connection: an empty input returns before the connection is used, any
\* other input needs the connection open
RepoSaveBatch(batch) ==
    /\ SessionCalls < MaxSessionCalls
    /\ IF batch = <<>> \/ connection = "open"
       THEN SaveBatchCall(batch)
       ELSE /\ calls < MaxBatchCalls
            /\ calls' = calls + 1
            /\ last_batch' = [input |-> batch, ok |-> FALSE, seq |-> calls',
                              again |-> Repeats(batch)]
            /\ UNCHANGED <<source, vsvars, dbvars, now, faults, runs, pc, locals, prev,
                           first_success, successes, failed_rows, fetchvars, toolvars, sessvars, racevars>>

\* both objects as their constructors leave them, over what the database
\* file and the persist directory already hold
PriorDocuments == {{}, {IndexDocument([id |-> "e2", subject |-> <<"a">>, body |-> <<>>])}}
InitSession ==
    /\ source = <<>>
    /\ documents \in PriorDocuments
    /\ collection = {IndexEntry(d) : d \in documents}
    /\ emails \in {rows \in PriorContents : Cardinality(rows) <= 1}
    /\ durable_emails = emails
    /\ vector_store = "set"
    /\ initialized = FALSE
    /\ client = 0
    /\ collection_handle = 0
    /\ handles = 0
    /\ connection = "none"
    /\ InitCalls

NextSession ==
    /\ SessionCalls < MaxSessionCalls
    /\ \/ InitStoreCall
       \/ CloseStoreCall
       \/ \E batch \in ContentBatches : AddEmailsBatchCall(batch)
       \/ InitDbCall
       \/ CloseDbCall
       \/ \E batch \in {b \in Batches : Len(b) <= 1} : RepoSaveBatch(batch)

SpecSession == InitSession /\ [][NextSession]_vars

\* ------------------------------------------------------------ the store's lifecycle
\* an EmailSearchStore over a persist directory, opened, used and closed by
\* direct calls
MaxStoreCalls == 4  \* direct calls on the store in one behaviour
PlainEmails == {e \in ContentEmails : e.subject = <<"a">> /\ e.body = <<>>}

NextLifecycle ==
    /\ store_call.seq < MaxStoreCalls
    /\ \/ InitStoreCall
       \/ CloseStoreCall
       \/ \E batch \in {<<>>} \cup {<<e>> : e \in PlainEmails} : AddEmailsBatchCall(batch)
       \/ \E email \in PlainEmails : AddEmailCall(email)
       \/ \E query \in Queries, limit \in Limits : SearchSimilarCall(query, limit)
       \/ GetCountCall
       \/ \E id \in EmailIds : EmailExistsCall(id)
       \/ \E id \in EmailIds : DeleteEmailCall(id)

SpecLifecycle == InitSession /\ [][NextLifecycle]_vars

\* ------------------------------------------------------------ concurrent runs
\* run_etl invocations of one process interleaved at their awaits, sharing the
\* Database connection and the EmailSearchStore; the process may crash and be
\* started again.
MaxCrashes == 1     \* process crashes in one behaviour

\* the process dies: every invocation in progress is gone with its locals and
\* with the connection's open transaction; the next process is wired as at
\* start-up
Crash ==
    /\ crashes < MaxCrashes
    /\ crashes' = crashes + 1
    /\ pc' = [p \in Procs |-> "idle"]
    /\ job_id' = [p \in Procs |-> 0]
    /\ raw_emails' = [p \in Procs |-> <<>>]
    /\ email_models' = [p \in Procs |-> <<>>]
    /\ idx' = [p \in Procs |-> 0]
    /\ new_emails' = [p \in Procs |-> <<>>]
    /\ exc' = [p \in Procs |-> NULL]
    /\ result' = [p \in Procs |-> NoResult]
    /\ index_failed' = [p \in Procs |-> FALSE]
    /\ emails' = durable_emails
    /\ etl_jobs' = durable_jobs
    /\ in_tx' = FALSE
    /\ \/ /\ vector_store' = "set"
          /\ InitStoreBody("ok")
       \/ /\ vector_store' = "none"
          /\ initialized' = FALSE
          /\ client' = 0
          /\ collection_handle' = 0
          /\ UNCHANGED handles
    /\ UNCHANGED <<source, collection, durable_emails, durable_jobs, terminal_writes, now,
                   faults, runs, histvars, repovars, fetchvars, toolvars, callvars, issued,
                   at_start>>

InitConcurrent ==
    /\ source \in {src \in Sources : \A i \in 1..Len(src) : src[i].kind = "valid"}
    /\ InitStores

\* one step of an invocation, with as many invocations in a behaviour as there
\* are invocations that may overlap
ConcurrentRun(p) == RunEtl(p) /\ runs' <= Cardinality(Procs)

NextConcurrent ==
    \/ \E p \in Procs : ConcurrentRun(p)
    \/ Crash

SpecConcurrent == InitConcurrent /\ [][NextConcurrent]_vars

\* ------------------------------------------------------------ claims
Ended(p) == pc[p] = "done"
Succeeded(p) == Ended(p) /\ result[p].status = "success"
HasJob(p) == job_id[p] \in 1..Len(durable_jobs)
Job(p) == durable_jobs[job_id[p]]
FaultFree == faults = 0

\* C1 (as stated): when a stage after job creation raised, run_etl ends with the
\* job persisted as FAILED, error_message equal to the exception's text, and
\* that same exception raised to the caller.
C1_AlwaysFailedAndReraised ==
    \A p \in Procs :
        (Ended(p) /\ exc[p] # NULL) =>
            /\ result[p].status = "raised"
            /\ result[p].raised = exc[p]
            /\ HasJob(p)
            /\ Job(p).status = FAILED
            /\ Job(p).error_message = exc[p]

\* C1 (amended): when a stage after job creation raised, run_etl never returns
\* normally; if the handler's FAILED write succeeds the job is persisted FAILED
\* with error_message equal to the exception's text and that exception is
\* re-raised; if that write itself raises, the write's exception reaches the
\* caller and the job is still persisted RUNNING.
C1_FailedUnlessFailWriteRaises ==
    \A p \in Procs :
        (Ended(p) /\ exc[p] # NULL) =>
            /\ result[p].status = "raised"
            /\ HasJob(p)
            /\ result[p].raised = exc[p] =>
                  /\ Job(p).status = FAILED
                  /\ Job(p).error_message = exc[p]
            /\ result[p].raised # exc[p] =>
                  /\ result[p].raised = "db_fail"
                  /\ Job(p).status = RUNNING

C1_Witness ==
    \E p \in Procs :
        /\ Ended(p)
        /\ exc[p] = "db_complete"
        /\ result[p].raised = exc[p]
        /\ HasJob(p)
        /\ Job(p).status = FAILED

\* C2: an exception caught during the index load never fails the job: no index
\* error reaches the caller, and when no other stage raised the run returns
\* success, its job is COMPLETED and every transformed record is in the Record
\* Store.
C2_IndexFailureNotFatal ==
    \A p \in Procs :
        /\ exc[p] \notin IndexErrors
        /\ result[p].raised \notin IndexErrors
        /\ (Ended(p) /\ index_failed[p] /\ exc[p] = NULL) =>
              /\ result[p].status = "success"
              /\ HasJob(p)
              /\ Job(p).status = COMPLETED
              /\ Range(email_models[p]) \subseteq durable_emails

C2_Witness ==
    \E p \in Procs :
        /\ Succeeded(p)
        /\ index_failed[p]
        /\ email_models[p] # <<>>
        /\ collection = {}

\* C3: a job whose persisted status is COMPLETED or FAILED keeps that status
\* through every later step, complete_job calls included.
C3_TerminalImmutable ==
    [][\A j \in 1..Len(durable_jobs) :
            durable_jobs[j].status \in Terminal =>
                /\ j <= Len(durable_jobs')
                /\ durable_jobs'[j].status = durable_jobs[j].status]_vars

\* C4: every change of a persisted job status made by run_etl is
\* PENDING->RUNNING, RUNNING->COMPLETED or RUNNING->FAILED; no persisted job
\* disappears; and an invocation that is past job creation (inside the try
\* block, so at or before its fetch) has its job record persisted.
PermittedTransitions ==
    {<<PENDING, RUNNING>>, <<RUNNING, COMPLETED>>, <<RUNNING, FAILED>>}
InTry == {"init_store", "fetch", "transform", "save_execute", "save_commit", "exists",
          "add_batch", "complete_execute", "complete_commit", "fail_execute",
          "fail_commit"}
C4_PermittedTransitionsOnly ==
    [][/\ \A j \in 1..Len(durable_jobs) :
            /\ j <= Len(durable_jobs')
            /\ \/ durable_jobs'[j].status = durable_jobs[j].status
               \/ <<durable_jobs[j].status, durable_jobs'[j].status>> \in PermittedTransitions
       /\ \A p \in Procs :
            pc'[p] \in InTry => job_id'[p] \in 1..Len(durable_jobs')]_vars

C4_Witness ==
    /\ \E j \in 1..Len(durable_jobs) : durable_jobs[j].status = COMPLETED
    /\ \E j \in 1..Len(durable_jobs) : durable_jobs[j].status = FAILED

\* C5: at most one terminal status write is ever committed for a job, also when
\* the completion write fails and the except clause writes FAILED.
C5_OneTerminalWrite ==
    \A j \in JobIds : terminal_writes[j] <= 1

C5_Witness ==
    \E p \in Procs :
        /\ Ended(p)
        /\ exc[p] = "db_complete"
        /\ HasJob(p)
        /\ Job(p).status = FAILED
        /\ terminal_writes[job_id[p]] = 1

\* C6: when run_etl returns success its job is persisted COMPLETED with
\* records_processed equal to the number of transformed records, which is also
\* the emails_processed it returns, and the job_id it returns is its job's id.
C6_SuccessCounts ==
    \A p \in Procs :
        Succeeded(p) =>
            /\ HasJob(p)
            /\ Job(p).status = COMPLETED
            /\ Job(p).records_processed = Len(email_models[p])
            /\ result[p].emails_processed = Job(p).records_processed
            /\ result[p].job_id = job_id[p]

C6_Witness ==
    \E p \in Procs :
        /\ Succeeded(p)
        /\ Len(email_models[p]) = 2
        /\ Cardinality(collection) < 2

\* C7 (as stated): from empty stores and with no failure, after each successful
\* run over the same N raw records both store counts and emails_processed equal
\* N, and the second run adds no entry to either store.
C7_CountsEqualRawCount ==
    \A p \in Procs :
        (Succeeded(p) /\ FaultFree) =>
            /\ Cardinality(durable_emails) = Len(raw_emails[p])
            /\ Cardinality(collection) = Len(raw_emails[p])
            /\ result[p].emails_processed = Len(raw_emails[p])

\* C7 (amended): from empty stores and with no failure, after each successful
\* run over the same N raw records both store counts and emails_processed equal
\* the number of well-formed records among the N, and the second run adds no
\* entry to either store.
WellFormedCount(raw) == Cardinality({i \in 1..Len(raw) : IsValidRaw(raw[i])})
C7_CountsEqualWellFormedCount ==
    \A p \in Procs :
        (Succeeded(p) /\ FaultFree) =>
            /\ Cardinality(durable_emails) = WellFormedCount(raw_emails[p])
            /\ Cardinality(collection) = WellFormedCount(raw_emails[p])
            /\ result[p].emails_processed = WellFormedCount(raw_emails[p])
            /\ Ids(durable_emails) = Ids(first_success.emails)
            /\ Ids(collection) = Ids(first_success.collection)
            /\ Cardinality(durable_emails) = Cardinality(first_success.emails)
            /\ Cardinality(collection) = Cardinality(first_success.collection)

C7_Witness ==
    \E p \in Procs :
        /\ Succeeded(p)
        /\ FaultFree
        /\ successes = 2
        /\ Len(raw_emails[p]) = 2
        /\ Cardinality(durable_emails) = 1
        /\ Cardinality(collection) = 1

\* C8: with a stable source and no failure, the contents of the Record Store
\* and of the Search Index after any number of successful runs are those left
\* by the first successful run.
C8_RerunConverges ==
    \A p \in Procs :
        (Succeeded(p) /\ FaultFree) =>
            /\ durable_emails = first_success.emails
            /\ collection = first_success.collection

\* C9: a row of the Record Store is never changed or removed by a later load.
C9_ExistingRowsUntouched ==
    [][\A r \in durable_emails : r \in durable_emails']_vars

\* C10: when the previous run completed although its index load failed, a run
\* over the same source whose index load does not fail ends with every id the
\* previous run transformed present in the Search Index.
C10_RerunRecoversIndex ==
    \A p \in Procs :
        (Succeeded(p) /\ ~index_failed[p] /\ prev[p].completed /\ prev[p].index_failed) =>
            prev[p].ids \subseteq Ids(collection)

C10_Witness ==
    \E p \in Procs :
        /\ Succeeded(p)
        /\ ~index_failed[p]
        /\ prev[p].completed
        /\ prev[p].index_failed
        /\ prev[p].ids # {}
        /\ prev[p].ids \subseteq Ids(collection)

\* C11: for every raw batch in which exactly one record is malformed (no id,
\* an ill-shaped from entry, an invalid address, or no mapping at all),
\* _transform_emails does not raise and returns the records of the others in
\* their original order.
Malformed(r) == r.kind \in {"missing_id", "ill_shaped_from", "bad_address", "non_mapping"}
OneMalformed(raw) == Cardinality({i \in 1..Len(raw) : Malformed(raw[i])}) = 1
OthersInOrder(raw) ==
    LET others == SelectSeq(raw, LAMBDA r : ~Malformed(r))
    IN  [i \in 1..Len(others) |-> others[i].id]
TransformReturned(p) == pc[p] \notin {"idle", "start_commit", "init_store", "fetch", "transform"}
C11_TransformTotal ==
    \A p \in Procs :
        (TransformReturned(p) /\ OneMalformed(raw_emails[p])) =>
            /\ exc[p] # "transform"
            /\ [i \in 1..Len(email_models[p]) |-> email_models[p][i].id]
                   = OthersInOrder(raw_emails[p])

\* C12 (as stated): when fetch returns 3 raw records of which one has no `from`
\* list, transform yields 2 records, both stores hold 2 entries and the job
\* ends COMPLETED with records_processed = 2.
OneMissingFrom(raw) ==
    /\ Len(raw) = 3
    /\ Cardinality({i \in 1..3 : raw[i].kind = "missing_from"}) = 1
    /\ Cardinality({i \in 1..3 : raw[i].kind = "valid"}) = 2
ScenarioCounts(p, n) ==
    /\ Len(email_models[p]) = n
    /\ Cardinality(durable_emails) = n
    /\ Cardinality(collection) = n
    /\ HasJob(p)
    /\ Job(p).status = COMPLETED
    /\ Job(p).records_processed = n
C12_MissingFromYieldsTwo ==
    \A p \in Procs :
        (Succeeded(p) /\ FaultFree /\ OneMissingFrom(raw_emails[p])) => ScenarioCounts(p, 2)

\* C12 (amended): when fetch returns 3 raw records of which one has no `from`
\* list, that record is kept with empty sender fields: transform yields 3
\* records, both stores hold 3 entries and the job ends COMPLETED with
\* records_processed = 3.
C12_MissingFromYieldsThree ==
    \A p \in Procs :
        (Succeeded(p) /\ FaultFree /\ OneMissingFrom(raw_emails[p])) =>
            /\ ScenarioCounts(p, 3)
            /\ \E r \in durable_emails : r.from_email = "" /\ r.from_name = ""

C12_Witness ==
    \E p \in Procs :
        /\ Succeeded(p)
        /\ FaultFree
        /\ OneMissingFrom(raw_emails[p])
        /\ Cardinality(durable_emails) = 3
        /\ Job(p).records_processed = 3

\* C13: when save_batch fails part-way through a batch, none of the rows of
\* that batch is visible on the connection, and none is persisted by a later
\* commit on that connection.
C13_FailedBatchLeavesNothing ==
    /\ failed_rows \cap emails = {}
    /\ failed_rows \cap durable_emails = {}

\* C14: a save_batch call that follows a successful save_batch call with the
\* same input, whatever the Record Store held before, leaves every row and the
\* row count as the first call left them.
SameBatchAgain ==
    /\ last_batch.ok
    /\ last_batch.seq = calls
    /\ last_batch'.ok
    /\ last_batch'.seq = calls'
    /\ calls' = calls + 1
    /\ last_batch'.input = last_batch.input
C14_SaveBatchIdempotent ==
    [][SameBatchAgain =>
            /\ emails' = emails
            /\ durable_emails' = durable_emails
            /\ Cardinality(durable_emails') = Cardinality(durable_emails)]_vars

\* two successful calls with the same two-row input over a store that already
\* held another version of one of the rows
C14_Witness ==
    /\ calls = 2
    /\ last_batch.ok
    /\ last_batch.again
    /\ faults = 0
    /\ Len(last_batch.input) = 2
    /\ \E i \in 1..2 : last_batch.input[i] \notin durable_emails
                        /\ last_batch.input[i].id \in Ids(durable_emails)
    /\ \E i \in 1..2 : last_batch.input[i] \in durable_emails
    /\ Cardinality(durable_emails) = 2

\* C15: fetch_emails returns at most max_count records for every requested
\* max_count, and what it returns is a prefix of the concatenation of the
\* provider's pages in the order they were returned.
IsPrefix(s, t) == Len(s) <= Len(t) /\ s = SubSeq(t, 1, Len(s))
C15_AtMostMaxCount ==
    fetch_result.status = "returned" =>
        /\ fetch_args.max_emails.given =>
               Len(fetch_result.emails) <= fetch_args.max_emails.value
        /\ IsPrefix(fetch_result.emails, provided)

\* C16: with max_count and page_size as fetch_emails uses them in its loop,
\* every page request asks for min(page_size, max_count - accumulated) records
\* and carries the cursor of the previous response (none on the first
\* request), and a response without cursor, or one with which the accumulated
\* count reaches max_count, is followed by no request.
RECURSIVE Accumulated(_)
Accumulated(k) == IF k = 0 THEN 0 ELSE Accumulated(k - 1) + responses[k].count
C16_PagingProtocol ==
    /\ Len(responses) <= Len(requests)
    /\ Len(requests) <= Len(responses) + 1
    /\ \A i \in 1..Len(requests) :
           /\ requests[i].limit = Min(emails_per_page, max_emails - Accumulated(i - 1))
           /\ requests[i].page_token =
                  IF i = 1 THEN NULL ELSE responses[i - 1].next_cursor
           /\ i > 1 => /\ ~NoCursor(responses[i - 1].next_cursor)
                        /\ Accumulated(i - 1) < max_emails

\* a second page was requested with the remainder as its limit, and the fetch
\* stopped on reaching max_count although the provider offered another page
C16_Witness ==
    /\ fetch_result.status = "returned"
    /\ Len(requests) = 2
    /\ requests[2].limit < emails_per_page
    /\ requests[2].page_token = "c1"
    /\ ~NoCursor(responses[2].next_cursor)
    /\ Accumulated(2) = max_emails

\* C17: a transport-level failure on any page aborts the fetch: fetch_emails
\* raises, returns none of the records of earlier pages, and sends no request
\* after the failed one.
C17_TransportFailureAborts ==
    transport_failed =>
        /\ fetch_pc = "done"
        /\ fetch_result.status = "raised"
        /\ fetch_result.emails = <<>>
        /\ Len(requests) = fetch_result.requests_made
        /\ Len(requests) = Len(responses) + 1

C17_Witness ==
    /\ transport_failed
    /\ fetch_result.status = "raised"
    /\ Len(responses) >= 1
    /\ Len(all_emails) >= 1

\* C18: search_emails, search_emails_by_sender and get_recent_emails never
\* raise to the caller: whenever an index query or a Record Store read fails
\* inside a tool, the tool returns the empty list.
C18_ToolsNeverRaise ==
    /\ tool_result.status # "raised"
    /\ tool_result.failed => (tool_result.status = "returned" /\ tool_result.emails = <<>>)

\* a row read failed after the index had returned hits
C18_Witness ==
    /\ tool_call.tool = "search_emails"
    /\ tool_result.failed
    /\ tool_result.status = "returned"
    /\ index_queries[1].outcome = "ok"
    /\ index_queries[1].hits # <<>>

\* C19: what search_emails / search_emails_by_sender return is built from
\* exactly the Search Index hits whose id has a row in the Record Store, in
\* the order the index returned them; hits without a row are left out, and
\* never more than `limit` entries are returned.
SearchTools == {"search_emails", "search_emails_by_sender"}
LastHits == index_queries[Len(index_queries)].hits
HitIds(hits) == [i \in 1..Len(hits) |-> hits[i].email_id]
C19_HydrationSkipsMissing ==
    (tool_call.tool \in SearchTools /\ tool_result.status = "returned" /\ ~tool_result.failed) =>
        /\ [i \in 1..Len(tool_result.emails) |-> tool_result.emails[i].email_id]
               = SelectSeq(HitIds(LastHits), LAMBDA id : id \in Ids(emails))
        /\ Len(tool_result.emails) <= tool_call.limit
        /\ \A i \in 1..Len(tool_result.emails) :
               \E r \in emails : /\ r.id = tool_result.emails[i].email_id
                                  /\ r.from_email = tool_result.emails[i].from_email

C19_Witness ==
    /\ tool_call.tool \in SearchTools
    /\ tool_result.status = "returned"
    /\ ~tool_result.failed
    /\ Len(LastHits) = 2
    /\ LastHits[1].email_id \notin Ids(emails)
    /\ Len(tool_result.emails) = 1

\* C20: search_emails_by_sender first queries the index filtered by sender
\* email, and queries it filtered by sender display name exactly when that
\* first query returned no hit.
C20_NameFallbackOnlyWhenEmpty ==
    tool_call.tool = "search_emails_by_sender" =>
        /\ Len(index_queries) \in {1, 2}
        /\ index_queries[1].field = "from_email"
        /\ index_queries[1].value = tool_call.sender
        /\ Len(index_queries) = 2 <=>
               (index_queries[1].outcome = "ok" /\ index_queries[1].hits = <<>>)
        /\ Len(index_queries) = 2 =>
               /\ index_queries[2].field = "from_name"
               /\ index_queries[2].value = tool_call.sender

C20_Witness ==
    /\ tool_call.tool = "search_emails_by_sender"
    /\ Len(index_queries) = 2
    /\ index_queries[2].hits # <<>>
    /\ tool_result.emails # <<>>

\* C21: search_emails_by_sender with a sender that is no indexed entry's
\* from_email and no indexed entry's from_name returns the empty list and does
\* not raise, whatever the non-empty stores hold.
UnknownSender(sender) ==
    \A e \in collection : e.from_email # sender /\ e.from_name # sender
C21_UnknownSenderEmpty ==
    (/\ tool_call.tool = "search_emails_by_sender"
     /\ UnknownSender(tool_call.sender)
     /\ collection # {}
     /\ emails # {}) =>
        /\ tool_result.status = "returned"
        /\ tool_result.emails = <<>>

\* both queries ran without error on populated stores and found nothing
C21_Witness ==
    /\ tool_call.tool = "search_emails_by_sender"
    /\ UnknownSender(tool_call.sender)
    /\ Cardinality(collection) = 2
    /\ Cardinality(emails) = 2
    /\ ~tool_result.failed
    /\ Len(index_queries) = 2
    /\ index_queries[2].outcome = "ok"
    /\ tool_result.emails = <<>>

\* C22 (as stated): in every state reachable by ETL runs, every result of
\* search_emails_by_sender has from_email equal to the requested sender.
Addresses == {"ann@x.com", "ann@y.org", "bob@x.com"}
ReturnedBySender ==
    /\ tool_call.tool = "search_emails_by_sender"
    /\ tool_call.sender \in Addresses
    /\ tool_result.status = "returned"
C22_ResultsFromRequestedSender ==
    ReturnedBySender =>
        \A i \in 1..Len(tool_result.emails) :
            tool_result.emails[i].from_email = tool_call.sender

\* C22 (amended): every result has from_email equal to the requested sender
\* when the query filtered by from_email found a hit, and from_name equal to
\* the requested sender when it found none and the display-name query ran.
C22_ResultsFromSenderOrNamesake ==
    ReturnedBySender =>
        \A i \in 1..Len(tool_result.emails) :
            IF Len(index_queries) = 1
            THEN tool_result.emails[i].from_email = tool_call.sender
            ELSE tool_result.emails[i].from_name = tool_call.sender

\* after a run, one search answered by the from_email query
C22_Witness ==
    /\ ReturnedBySender
    /\ \E p \in Procs : Succeeded(p)
    /\ Len(index_queries) = 1
    /\ tool_result.emails # <<>>
    /\ tool_result.emails[1].from_email = tool_call.sender

\* C23: the hits of every Search Index query, and the entries search_emails
\* returns after hydration (by their relevance_score), are in non-decreasing
\* distance order.
NonDecreasing(s) == \A i, j \in 1..Len(s) : i < j => s[i] <= s[j]
C23_DistanceOrdering ==
    /\ \A k \in 1..Len(index_queries) :
           NonDecreasing([i \in 1..Len(index_queries[k].hits) |->
                              index_queries[k].hits[i].distance])
    /\ (tool_call.tool = "search_emails" /\ tool_result.status = "returned") =>
           NonDecreasing([i \in 1..Len(tool_result.emails) |->
                              tool_result.emails[i].relevance_score])

\* two hits at different distances, both hydrated
C23_Witness ==
    /\ tool_call.tool = "search_emails"
    /\ tool_result.status = "returned"
    /\ Len(tool_result.emails) = 2
    /\ index_queries[1].hits[1].distance < index_queries[1].hits[2].distance
    /\ tool_result.emails[1].relevance_score <= tool_result.emails[2].relevance_score

\* C24: init_store on a store that is already initialized returns without
\* error, keeps the client and collection handles it had, creates no handle
\* and leaves the indexed contents unchanged.
InitStoreStep == store_call'.op = "init_store" /\ store_call'.seq = store_call.seq + 1
C24_InitStoreIdempotent ==
    [][(InitStoreStep /\ initialized) =>
            /\ store_call'.outcome = "returned"
            /\ initialized'
            /\ client' = client
            /\ collection_handle' = collection_handle
            /\ handles' = handles
            /\ collection' = collection
            /\ documents' = documents]_vars

\* init_store has just returned on an initialized store that holds entries
C24_Witness ==
    /\ store_call.op = "init_store"
    /\ store_call.was_initialized
    /\ store_call.outcome = "returned"
    /\ initialized
    /\ client # 0
    /\ collection_handle # 0
    /\ collection # {}

\* C25: close() on a Database that was never opened or is already closed, and
\* on an EmailSearchStore that was never initialized or is already closed,
\* returns without error and leaves the object closed.
C25_CloseIdempotent ==
    /\ (store_call.op = "close_db" /\ store_call.was_connection # "open") =>
           /\ store_call.outcome = "returned"
           /\ connection = store_call.was_connection
    /\ (store_call.op = "close_store" /\ ~store_call.was_initialized) =>
           /\ store_call.outcome = "returned"
           /\ ~initialized

\* the second of two close() calls on an opened Database
C25_Witness ==
    /\ store_call.op = "close_db"
    /\ store_call.was_connection = "closed"
    /\ store_call.outcome = "returned"
    /\ connection = "closed"
    /\ store_call.seq = 3

\* C26 (as stated): save_batch([]) and add_emails_batch([]) return without
\* error and leave the contents of their store unchanged, in every state of
\* the store.
EmptySaveStep == calls' = calls + 1 /\ last_batch'.seq = calls' /\ last_batch'.input = <<>>
EmptyAddStep ==
    /\ store_call'.op = "add_emails_batch"
    /\ store_call'.seq = store_call.seq + 1
    /\ store_call'.input = 0
RecordStoreUntouched ==
    /\ last_batch'.ok
    /\ emails' = emails
    /\ durable_emails' = durable_emails
    /\ in_tx' = in_tx
IndexUntouched == collection' = collection /\ documents' = documents
C26_EmptyBatchNoOpEverywhere ==
    [][/\ EmptySaveStep => RecordStoreUntouched
       /\ EmptyAddStep => (store_call'.outcome = "returned" /\ IndexUntouched)]_vars

\* C26 (amended): save_batch([]) returns without error and leaves the Record
\* Store unchanged in every state of the store and of its connection;
\* add_emails_batch([]) leaves the Search Index unchanged in every state, and
\* returns without error when the store is initialized, while on a store that
\* is not initialized it raises.
C26_EmptyBatchNoOpWhenReady ==
    [][/\ EmptySaveStep => RecordStoreUntouched
       /\ EmptyAddStep =>
             /\ IndexUntouched
             /\ store_call'.outcome =
                    IF initialized /\ collection_handle # 0 THEN "returned" ELSE "raised"]_vars

\* add_emails_batch([]) returned on an initialized store holding an entry, and
\* save_batch([]) returned over a Record Store holding a row
C26_Witness ==
    /\ store_call.op = "add_emails_batch"
    /\ store_call.input = 0
    /\ store_call.was_initialized
    /\ store_call.outcome = "returned"
    /\ collection # {}
    /\ calls > 0
    /\ last_batch.seq = calls
    /\ last_batch.input = <<>>
    /\ last_batch.ok
    /\ emails # {}

\* C27 (as stated): a record whose subject and body are both the empty string
\* is indexed as "Empty email"; any other record is indexed as its non-empty
\* fields, "Subject: <subject>" and "Body: <body>", joined by a blank line.
LabelledParts(d, present(_), text(_)) ==
    (IF present(d.subject) THEN <<(<<"Subject: ">> \o text(d.subject))>> ELSE <<>>)
        \o (IF present(d.body) THEN <<(<<"Body: ">> \o text(d.body))>> ELSE <<>>)
Joined(parts) ==
    IF Len(parts) = 2 THEN parts[1] \o <<"\n\n">> \o parts[2] ELSE parts[1]
NonEmpty(t) == t # <<>>
AsIs(t) == t
C27_EmptyFieldsPlaceholder ==
    \A d \in documents :
        d.document = IF d.subject = <<>> /\ d.body = <<>>
                     THEN <<"Empty email">>
                     ELSE Joined(LabelledParts(d, NonEmpty, AsIs))

\* C27 (amended): a record whose subject and body are both empty or made of
\* whitespace only is indexed as "Empty email"; any other record is indexed as
\* those of "Subject: <subject>" and "Body: <body>" whose field has a
\* non-whitespace character, each field without its leading and trailing
\* whitespace, joined by a blank line.
HasText(t) == \E i \in 1..Len(t) : t[i] # " "
Trimmed(t) ==
    LET shown == {i \in 1..Len(t) : t[i] # " "}
        first == CHOOSE i \in shown : \A j \in shown : i <= j
        last == CHOOSE i \in shown : \A j \in shown : j <= i
    IN  SubSeq(t, first, last)
C27_BlankFieldsPlaceholder ==
    \A d \in documents :
        d.document = IF ~HasText(d.subject) /\ ~HasText(d.body)
                     THEN <<"Empty email">>
                     ELSE Joined(LabelledParts(d, HasText, Trimmed))

\* one record with a blank subject and no body, one with padded subject and body
C27_Witness ==
    \E d1, d2 \in documents :
        /\ d1.subject = <<" ">>
        /\ d1.body = <<>>
        /\ d1.document = <<"Empty email">>
        /\ d2.subject = <<" ", "a", " ">>
        /\ d2.body = <<" ", "a", " ">>
        /\ d2.document = <<"Subject: ", "a", "\n\n", "Body: ", "a">>

\* C28: nothing but the existence pre-check guards the batch insert, and the
\* two are separate awaits: with no failure injected, an insert is issued for
\* an id the index already holds only when another invocation inserted that id
\* after this invocation's pre-check had found it absent.  C28_Witness is the
\* interleaving in which both invocations find the id absent and both issue
\* the insert.
C28_PrecheckAndInsertNotAtomic ==
    faults = 0 =>
        \A r \in issued :
            r.present => \E s \in issued : s.id = r.id /\ s.proc # r.proc /\ ~s.present

C28_Witness ==
    \E id \in EmailIds :
        /\ faults = 0
        /\ crashes = 0
        /\ id \in SeqIds(new_emails[1]) \cap SeqIds(new_emails[2])
        /\ [proc |-> 1, id |-> id, present |-> FALSE] \in issued
        /\ [proc |-> 2, id |-> id, present |-> TRUE] \in issued
        /\ \A p \in Procs : pc[p] \notin {"idle", "exists", "add_batch"}

\* C29: in every state reached by sequential or overlapping run_etl
\* invocations, with failures and a crash at any point, every id in the Search
\* Index is the id of a committed row of the Record Store, visible on the
\* connection.
C29_IndexWithinRecordStore ==
    /\ Ids(collection) \subseteq Ids(durable_emails)
    /\ Ids(collection) \subseteq Ids(emails)

\* C30 (as stated): once run_etl has returned or raised, the job it created is
\* persisted COMPLETED or FAILED.
C30_EndedJobTerminal ==
    \A p \in Sequential :
        (Ended(p) /\ job_id[p] # 0) =>
            /\ HasJob(p)
            /\ Job(p).status \in Terminal

\* C30 (amended): once run_etl has returned or raised, the job it created is
\* persisted COMPLETED or FAILED, unless the except clause's own write of
\* FAILED raised: then that write's exception is what run_etl raised and the
\* job is persisted RUNNING.
FailWriteRaised(p) == result[p].status = "raised" /\ result[p].raised = "db_fail"
C30_EndedJobTerminalUnlessFailWriteRaised ==
    \A p \in Sequential :
        (Ended(p) /\ job_id[p] # 0) =>
            /\ HasJob(p)
            /\ IF FailWriteRaised(p)
               THEN Job(p).status = RUNNING
               ELSE Job(p).status \in Terminal
            /\ result[p].status = "success" => Job(p).status = COMPLETED

\* a run whose completion write failed and whose FAILED write then succeeded
C30_Witness ==
    \E p \in Sequential :
        /\ Ended(p)
        /\ job_id[p] # 0
        /\ exc[p] = "db_complete"
        /\ ~FailWriteRaised(p)
        /\ Job(p).status = FAILED
        /\ faults = 1

\* C31: within one invocation the stages follow one another in the order
\* fetch, transform, Record Store load, Search Index load, job status update:
\* an invocation never steps back to an earlier stage, every Search Index
\* call of a run comes after all of that run's Record Store writes are
\* committed, and a job is persisted COMPLETED only with every id the run
\* transformed in the Record Store.
StageRank(at) ==
    CASE at \in {"idle", "start_commit"} -> 0
      [] at = "init_store" -> 1
      [] at = "fetch" -> 2
      [] at = "transform" -> 3
      [] at \in {"save_execute", "save_commit"} -> 4
      [] at \in {"exists", "add_batch"} -> 5
      [] at \in {"complete_execute", "complete_commit"} -> 6
      [] at \in {"fail_execute", "fail_commit"} -> 7
      [] OTHER -> 8
AllStored(p) ==
    /\ SeqIds(email_models[p]) \subseteq Ids(durable_emails)
    /\ SeqIds(email_models[p]) \subseteq Ids(emails)
BecomesCompleted(p) ==
    /\ job_id[p] \in 1..Len(durable_jobs')
    /\ durable_jobs'[job_id[p]].status = COMPLETED
    /\ (job_id[p] \in 1..Len(durable_jobs) => durable_jobs[job_id[p]].status # COMPLETED)
C31_StagesInOrder ==
    [][\A p \in Sequential :
          /\ (pc[p] # "done" /\ pc'[p] # pc[p]) => StageRank(pc'[p]) >= StageRank(pc[p])
          /\ pc[p] \in {"exists", "add_batch"} => AllStored(p)
          /\ (collection' # collection \/ issued' # issued) =>
                 (pc[p] = "add_batch" /\ AllStored(p))
          /\ (pc[p] = "complete_commit" /\ BecomesCompleted(p)) =>
                 SeqIds(email_models[p]) \subseteq Ids(durable_emails')]_vars

\* a run of two records has gone through every stage and is COMPLETED
C31_Witness ==
    \E p \in Sequential :
        /\ Succeeded(p)
        /\ Len(email_models[p]) = 2
        /\ Ids(collection) = SeqIds(email_models[p])
        /\ Job(p).status = COMPLETED
        /\ AllStored(p)

\* C32: when a Record Store write of a run fails, the job is FAILED and none of
\* the run's records has been added to the Record Store (stated for the first
\* run over an empty Record Store, with the FAILED write itself succeeding).
C32_FailedLoadLeavesNothing ==
    \A p \in Sequential :
        (Ended(p) /\ exc[p] = "db_save" /\ runs = 1 /\ result[p].raised = exc[p]) =>
            /\ HasJob(p)
            /\ Job(p).status = FAILED
            /\ Ids(emails) \cap SeqIds(email_models[p]) = {}
            /\ Ids(durable_emails) \cap SeqIds(email_models[p]) = {}

\* C33: when fetch_emails raises, the run ends with the Record Store's email
\* rows, committed and on the connection, and the Search Index exactly as they
\* were when the run began.
ExtractionFailed(p) == Ended(p) /\ exc[p] = "fetch"
C33_FailedExtractionLeavesStores ==
    \A p \in Sequential :
        ExtractionFailed(p) =>
            /\ emails = at_start[p].emails
            /\ durable_emails = at_start[p].durable_emails
            /\ collection = at_start[p].collection

\* C34: a step of run_etl leaves every job row other than the invocation's own
\* as it was, on the connection and committed, and the id it obtained from
\* start_job is held by no other invocation.
OwnJobOnly(before, after) ==
    \A j \in 1..Len(before) :
        \/ j <= Len(after) /\ after[j] = before[j]
        \/ \E p \in Procs : pc'[p] # pc[p] /\ job_id[p] = j
C34_WritesOnlyOwnJob ==
    [][crashes' = crashes =>
          /\ OwnJobOnly(etl_jobs, etl_jobs')
          /\ \A p, q \in Procs : (p # q /\ job_id'[p] # 0) => job_id'[p] # job_id'[q]]_vars

\* C35: in every state each job row, on the connection and committed, has the
\* fields its status calls for: RUNNING with no completion time, no error
\* message and no count; COMPLETED with a completion time, no error message and
\* the count of records its run transformed; FAILED with a completion time and
\* an error message.
JobConsistent(row) ==
    /\ row.status \in {RUNNING, COMPLETED, FAILED}
    /\ row.status = RUNNING =>
           row.completed_at = NULL /\ row.error_message = NULL /\ row.records_processed = 0
    /\ row.status = COMPLETED => row.completed_at # NULL /\ row.error_message = NULL
    /\ row.status = FAILED => row.completed_at # NULL /\ row.error_message # NULL
C35_JobFieldsConsistent ==
    /\ \A j \in 1..Len(etl_jobs) : JobConsistent(etl_jobs[j])
    /\ \A j \in 1..Len(durable_jobs) : JobConsistent(durable_jobs[j])
    /\ \A p \in Sequential :
           (HasJob(p) /\ Job(p).status = COMPLETED) =>
               Job(p).records_processed = Len(email_models[p])

C35_Witness ==
    \E p \in Sequential :
        /\ Succeeded(p)
        /\ Job(p).status = COMPLETED
        /\ Job(p).records_processed = 2
        /\ \E j \in 1..Len(durable_jobs) :
               durable_jobs[j].status = FAILED /\ durable_jobs[j].error_message = "fetch"

\* C36: every id a run passes to add_emails_batch was absent from the Search
\* Index, and a run reaches the batch-add call only when some transformed id is
\* absent from the index.
C36_OnlyAbsentIdsPassed ==
    /\ \A r \in issued : ~r.present
    /\ \A p \in Sequential :
           pc[p] = "add_batch" => SeqIds(email_models[p]) \ Ids(collection) # {}

\* C37: fetch_emails terminates whatever the provider answers. The responses
\* are unconstrained, so the loop terminates only if no iteration brings it back
\* to the state it started from: every response that sends fetch_emails round
\* the loop again changes all_emails or page_token.
LoopState == <<all_emails, page_token>>
C37_FetchMakesProgress ==
    [][(fetch_pc = "await" /\ fetch_pc' = "loop") => LoopState' # LoopState]_vars

\* C38: a data operation called while the store is not initialized - never
\* initialized, or closed - raises RuntimeError and leaves the index as it was;
\* close and init_store leave the persisted contents as they were; and on an
\* initialized store no data operation raises RuntimeError, each answering from
\* the persisted contents.
DataOps == {"add_email", "add_emails_batch", "search_similar", "get_count", "email_exists",
            "delete_email"}
DataStep == store_call'.seq = store_call.seq + 1 /\ store_call'.op \in DataOps
LifecycleStep ==
    store_call'.seq = store_call.seq + 1 /\ store_call'.op \in {"init_store", "close_store"}
IndexUnchanged == collection' = collection /\ documents' = documents
AnswersFromContents ==
    (store_call'.outcome = "returned" /\ faults' = faults) =>
        CASE store_call'.op = "get_count" ->
                 store_call'.answer.count = Cardinality(collection)
          [] store_call'.op = "email_exists" ->
                 store_call'.answer.found = (store_call'.arg \in Ids(collection))
          [] store_call'.op = "search_similar" ->
                 /\ \A i \in 1..Len(store_call'.answer.hits) :
                        store_call'.answer.hits[i].email_id \in Ids(collection)
                 /\ collection # {} => store_call'.answer.hits # <<>>
          [] store_call'.op = "delete_email" -> store_call'.arg \notin Ids(collection')
          [] OTHER -> Ids(collection) \subseteq Ids(collection')
SearchHandlers == {"search_emails_handler", "search_emails_by_sender_handler",
                   "get_recent_emails_handler"}
SendFailed == handler.input.message = NULL \/ handler.input.outcome # "sent"
C39_HandlersAlwaysAnswer ==
    handler.name # "none" =>
        /\ ~handler.raised
        /\ Len(handler.callbacks) = 1
        /\ (handler.name \in SearchHandlers /\ (tool_result.failed \/ tool_result.emails = <<>>))
               => handler.callbacks[1].text = "No emails found."
        /\ (handler.name = "send_email_handler" /\ SendFailed)
               => handler.callbacks[1].success = FALSE

\* search_emails_handler whose index query found entries and whose row read
\* raised
C39_Witness ==
    /\ handler.name = "search_emails_handler"
    /\ tool_result.failed
    /\ index_queries[1].hits # <<>>
    /\ handler.callbacks = <<FormatEmailsForLlm(<<>>)>>

\* C40: whatever the email mode, get_transport gives a transport and does not
\* raise: the test transport in test and development mode, and otherwise the
\* production transport when there is one and the test transport when not.
C40_AlwaysATransport ==
    manager.got # "none" =>
        /\ manager.got # "AttributeError"
        /\ manager.got \in {manager.test_transport, manager.production_transport}
        /\ manager.email_mode \in {"test", "development"} => manager.got = manager.test_transport

====
